---- MODULE Spec2Model ----
(***************************************************************************)
(* Verification model of the tower-defence core.                           *)
(*                                                                         *)
(*   - WaveManager (src/src/systems/WaveManager.ts): the wave state        *)
(*     machine, the countdown, the spawn queue and the three spawn         *)
(*     orderings.                                                          *)
(*   - CombatSystem (src/src/systems/CombatSystem.ts) with Projectile,     *)
(*     ProjectileManager and Enemy: collisions, area damage and the        *)
(*     damage formula, computed in IEEE 754 binary64 as the code does.     *)
(*   - SpatialGrid (src/unnamed/part_009): the two indices of the grid,    *)
(*     insert, remove, update, query and clear.                            *)
(*   - ObjectPool (src/src/systems/index.ts): the available and the active *)
(*     objects under acquire, release, releaseAll, prewarm and clear.      *)
(*   - GameStateManager (src/unnamed/part_019): the game state and the     *)
(*     operations that change it.                                          *)
(*                                                                         *)
(* All times are integer milliseconds.                                     *)
(***************************************************************************)
EXTENDS Integers, Sequences, FiniteSets, Bags, TLC

(***************************************************************************)
(* Bounds of the model                                                     *)
(***************************************************************************)
\* largest number of enemy groups of a wave drawn for the queue builders
MaxGroups == 2
\* largest count of one enemy group drawn for the queue builders
MaxCount == 3
\* largest number of queue entries of a wave drawn for the queue builders
MaxPool == 5
\* update() is not taken once the countdown has run this long (ms)
MaxCountdownElapsed == 12000
\* update() is not taken once a wave has run this long (ms)
MaxWaveElapsed == 2000
\* no further wave is begun once the wave index has reached this value
MaxWaveIndex == 2
\* update() is not taken while the enemy manager holds more enemies than this
MaxActive == 1
\* no further wave is completed once the total statistics exceed this
MaxTotal == 2
\* update() of the spawn timeline is not taken once a wave has run this long (ms)
MaxSpawnElapsed == 5000
\* stop, pause, startNextWave, callNextWaveEarly and skipCurrentWave are
\* called at most this many times in a run
MaxCalls == 2
\* ObjectPool: the largest initialSize and maxSize a pool is constructed with
MaxInitialSize == 3
MaxMaxSize == 2
\* ObjectPool: the factory is called at most this many times after construction
\* has made its objects
MaxObjects == 4
\* GameStateManager: the lives and the waves of the game that is played
InitialLives == 2
GameTotalWaves == 2
\* GameStateManager: advanceWave() is not called beyond this wave
MaxCurrentWave == 3

(***************************************************************************)
(* Types                                                                   *)
(***************************************************************************)
EnemyType == {"fast", "tank", "flying"}

SEQUENTIAL == "sequential"
INTERLEAVED == "interleaved"
RANDOM == "random"
SpawnMode == {SEQUENTIAL, INTERLEAVED, RANDOM}

IDLE == "idle"
COUNTDOWN == "countdown"
SPAWNING == "spawning"
WAITING_FOR_CLEAR == "waiting_for_clear"
COMPLETE == "complete"
WaveManagerState == {IDLE, COUNTDOWN, SPAWNING, WAITING_FOR_CLEAR, COMPLETE}

(***************************************************************************)
(* Spawn queue construction (pure functions of the wave's enemy groups)    *)
(***************************************************************************)

\* the inner loop advancing the clock before the push
RECURSIVE SequentialGroup_DelayFirst(_, _, _, _)
SequentialGroup_DelayFirst(queue, enemySpawn, i, currentTime) ==
  IF i < enemySpawn.count
    THEN SequentialGroup_DelayFirst(
           Append(queue, [type |-> enemySpawn.type,
                          spawnTime |-> currentTime + enemySpawn.spawnDelay]),
           enemySpawn, i + 1, currentTime + enemySpawn.spawnDelay)
    ELSE [queue |-> queue, currentTime |-> currentTime]

\* inner loop of buildSequentialQueue: for (i = 0; i < count; i++) push, advance
RECURSIVE SequentialGroup(_, _, _, _)
SequentialGroup(queue, enemySpawn, i, currentTime) ==
  IF i < enemySpawn.count
    THEN SequentialGroup(
           Append(queue, [type |-> enemySpawn.type, spawnTime |-> currentTime]),
           enemySpawn, i + 1, currentTime + enemySpawn.spawnDelay)
    ELSE [queue |-> queue, currentTime |-> currentTime]

\* the outer loop starting every group with the clock at 0
RECURSIVE SequentialGroups_ClockPerGroup(_, _, _, _)
SequentialGroups_ClockPerGroup(queue, enemies, g, currentTime) ==
  IF g > Len(enemies)
    THEN queue
    ELSE SequentialGroups_ClockPerGroup(
           SequentialGroup(queue, enemies[g], 0, 0).queue, enemies, g + 1, 0)

\* outer loop of buildSequentialQueue: for (const enemySpawn of wave.enemies)
RECURSIVE SequentialGroups(_, _, _, _)
SequentialGroups(queue, enemies, g, currentTime) ==
  IF g > Len(enemies)
    THEN queue
    ELSE LET r == SequentialGroup(queue, enemies[g], 0, currentTime)
         IN  SequentialGroups(r.queue, enemies, g + 1, r.currentTime)

\* buildSequentialQueue: the queue as pushed, before the final sort
buildSequentialQueue(enemies) == SequentialGroups(<<>>, enemies, 1, 0)

\* the loop advancing the clock by the delay of the group that comes next
RECURSIVE InterleavedLoop_NextDelay(_, _, _, _, _)
InterleavedLoop_NextDelay(queue, enemies, remaining, currentTime, typeIndex) ==
  IF \E g \in 1..Len(enemies) : remaining[g] > 0
    THEN LET next == (typeIndex % Len(enemies)) + 1
         IN  IF remaining[typeIndex] > 0
               THEN InterleavedLoop_NextDelay(
                      Append(queue, [type |-> enemies[typeIndex].type,
                                     spawnTime |-> currentTime]),
                      enemies,
                      [remaining EXCEPT ![typeIndex] = @ - 1],
                      currentTime + enemies[next].spawnDelay,
                      next)
               ELSE InterleavedLoop_NextDelay(queue, enemies, remaining,
                                              currentTime, next)
    ELSE queue

\* the while loop of buildInterleavedQueue; typeIndex is 1-based here
RECURSIVE InterleavedLoop(_, _, _, _, _)
InterleavedLoop(queue, enemies, remaining, currentTime, typeIndex) ==
  IF \E g \in 1..Len(enemies) : remaining[g] > 0
    THEN LET next == (typeIndex % Len(enemies)) + 1
         IN  IF remaining[typeIndex] > 0
               THEN InterleavedLoop(
                      Append(queue, [type |-> enemies[typeIndex].type,
                                     spawnTime |-> currentTime]),
                      enemies,
                      [remaining EXCEPT ![typeIndex] = @ - 1],
                      currentTime + enemies[typeIndex].spawnDelay,
                      next)
               ELSE InterleavedLoop(queue, enemies, remaining, currentTime, next)
    ELSE queue

\* buildInterleavedQueue: the queue as pushed, before the final sort
buildInterleavedQueue(enemies) ==
  InterleavedLoop(<<>>, enemies,
                  [g \in 1..Len(enemies) |-> enemies[g].count], 0, 1)

\* buildRandomQueue, first loop: the flat pool of (type, delay) pairs
RECURSIVE RandomPoolGroup(_, _, _)
RandomPoolGroup(pool, enemySpawn, i) ==
  IF i < enemySpawn.count
    THEN RandomPoolGroup(
           Append(pool, [type |-> enemySpawn.type, delay |-> enemySpawn.spawnDelay]),
           enemySpawn, i + 1)
    ELSE pool

RECURSIVE RandomPoolGroups(_, _, _)
RandomPoolGroups(pool, enemies, g) ==
  IF g > Len(enemies)
    THEN pool
    ELSE RandomPoolGroups(RandomPoolGroup(pool, enemies[g], 0), enemies, g + 1)

RandomPool(enemies) == RandomPoolGroups(<<>>, enemies, 1)

\* a swap that loses pool[i]: pool[i] = pool[j] alone
Swap_Overwrite(pool, i, j) == [pool EXCEPT ![i] = pool[j]]

\* [pool[i], pool[j]] = [pool[j], pool[i]]
Swap(pool, i, j) == [pool EXCEPT ![i] = pool[j], ![j] = pool[i]]

\* Fisher-Yates: for (i = length - 1; i > 0; i--) { j = floor(random * (i + 1)); swap }
\* i is 1-based here (the loop runs for i = Len(pool) down to 2, j in 1..i);
\* the result is the set of the pools the random choices can produce
RECURSIVE FisherYates(_, _)
FisherYates(pool, i) ==
  IF i > 1
    THEN UNION {FisherYates(Swap(pool, i, j), i - 1) : j \in 1..i}
    ELSE {pool}

\* buildRandomQueue, last loop: lay the shuffled pool out on the running clock
RECURSIVE RandomLayout(_, _, _, _)
RandomLayout(queue, pool, k, currentTime) ==
  IF k > Len(pool)
    THEN queue
    ELSE RandomLayout(
           Append(queue, [type |-> pool[k].type, spawnTime |-> currentTime]),
           pool, k + 1, currentTime + pool[k].delay)

\* buildRandomQueue: the queues the shuffle can produce, before the final sort
buildRandomQueue(enemies) ==
  LET pool == RandomPool(enemies)
  IN  {RandomLayout(<<>>, shuffled, 1, 0) : shuffled \in FisherYates(pool, Len(pool))}

\* an unstable insertion: an entry goes before the entries of equal spawnTime
RECURSIVE InsertSorted_Unstable(_, _)
InsertSorted_Unstable(sorted, e) ==
  IF sorted = <<>>
    THEN <<e>>
    ELSE IF sorted[Len(sorted)].spawnTime - e.spawnTime < 0
           THEN Append(sorted, e)
           ELSE Append(InsertSorted_Unstable(SubSeq(sorted, 1, Len(sorted) - 1), e),
                       sorted[Len(sorted)])

\* Array.prototype.sort is stable: an entry goes behind every entry that does
\* not compare greater (a.spawnTime - b.spawnTime <= 0 keeps a before b)
RECURSIVE InsertSorted(_, _)
InsertSorted(sorted, e) ==
  IF sorted = <<>>
    THEN <<e>>
    ELSE IF sorted[Len(sorted)].spawnTime - e.spawnTime <= 0
           THEN Append(sorted, e)
           ELSE Append(InsertSorted(SubSeq(sorted, 1, Len(sorted) - 1), e),
                       sorted[Len(sorted)])

RECURSIVE SortLoop(_, _, _)
SortLoop(sorted, queue, k) ==
  IF k > Len(queue)
    THEN sorted
    ELSE SortLoop(InsertSorted(sorted, queue[k]), queue, k + 1)

\* buildSpawnQueue without its final sort
SortBySpawnTime_Skipped(queue) == queue

\* this.spawnQueue.sort((a, b) => a.spawnTime - b.spawnTime)
SortBySpawnTime(queue) == SortLoop(<<>>, queue, 1)

\* the switch of buildSpawnQueue: the queues a mode can push, before the sort
UnsortedQueues(enemies, mode) ==
  IF mode = INTERLEAVED THEN {buildInterleavedQueue(enemies)}
  ELSE IF mode = RANDOM THEN buildRandomQueue(enemies)
  ELSE {buildSequentialQueue(enemies)}

\* buildSpawnQueue: the set of spawn queues the call can leave in this.spawnQueue
buildSpawnQueue(enemies, mode) ==
  {SortBySpawnTime(q) : q \in UnsortedQueues(enemies, mode)}

(***************************************************************************)
(* State                                                                   *)
(***************************************************************************)
VARIABLES
  strict,          \* the build runs class bodies in strict mode (ES module)
  waves,           \* WaveManager.waves
  difficulty,      \* WaveManager.difficulty.countMultiplier, in percent
  autoStartWaves,  \* WaveManager.autoStartWaves
  endlessMode,     \* WaveManager.endlessMode
  spawnMode,       \* WaveManager.spawnMode
  wm,              \* the other fields of the WaveManager instance, and what
                   \* its last operation emitted / whether it threw
  destroyed,       \* destroy() has unsubscribed the manager
  calls,           \* how often the host has intervened (stop, pause, next, skip)
  activeEnemies,   \* IEnemyManager.getActiveEnemyCount()
  unresolved,      \* enemies the enemy manager has not yet reported killed or leaked
  qEnemies,        \* queue builders: the enemy groups of the input wave
  qMode,           \* queue builders: the spawn mode applied, "none" before
  qRaw,            \* queue builders: the queue as pushed, before the sort
  qQueue,          \* queue builders: this.spawnQueue after buildSpawnQueue
  cs,              \* the CombatSystem, its targets and its projectile manager
  calc,            \* calculateDamage: the inputs drawn and the results
  grid,            \* the SpatialGrid instance
  gridCall,        \* SpatialGrid: the last call, its arguments and its result
  pool,            \* the ObjectPool instance
  poolCall,        \* ObjectPool: the last call, its argument and its result
  game,            \* the GameStateManager instance
  gameCall         \* GameStateManager: the last call and what it notified

cfgVars == <<strict, waves, difficulty, autoStartWaves, endlessMode, spawnMode>>
wmVars == <<wm, destroyed, calls, activeEnemies, unresolved>>
qVars == <<qEnemies, qMode, qRaw, qQueue>>
combatVars == <<cs, calc>>
gridVars == <<grid, gridCall>>
poolVars == <<pool, poolCall>>
gameVars == <<game, gameCall>>
auxVars == <<gridVars, poolVars, gameVars>>
vars == <<cfgVars, wmVars, qVars, combatVars, auxVars>>

(***************************************************************************)
(* Configuration (src/src/config/WaveConfig.ts)                            *)
(***************************************************************************)
\* WAVE_TIMING.timeBetweenWaves
timeBetweenWaves == 10000
\* WAVE_TIMING.countdownTickInterval
countdownTickInterval == 1000

Max(a, b) == IF a >= b THEN a ELSE b

\* Math.round(count * countMultiplier), the multiplier in percent
\* (Math.round rounds halves towards +Infinity)
RoundPercent(count, pct) == (count * pct + 50) \div 100

\* a scaling that leaves at least one enemy in every group
getScaledWaveDefinition_AtLeastOne(wave, pct) ==
  [wave EXCEPT !.enemies =
     [g \in 1..Len(wave.enemies) |->
        [wave.enemies[g] EXCEPT !.count = Max(1, RoundPercent(@, pct))]]]

\* getScaledWaveDefinition
getScaledWaveDefinition(wave, pct) ==
  [wave EXCEPT !.enemies =
     [g \in 1..Len(wave.enemies) |->
        [wave.enemies[g] EXCEPT !.count = RoundPercent(@, pct)]]]

RECURSIVE SumCounts(_, _)
SumCounts(enemies, g) ==
  IF g > Len(enemies) THEN 0 ELSE enemies[g].count + SumCounts(enemies, g + 1)

\* getWaveEnemyCount
getWaveEnemyCount(wave) == SumCounts(wave.enemies, 1)

\* generateEndlessWave(index, baseWaves): index is 0-based; the scale factor
\* 1 + cycleNumber * 0.5 + cyclePosition * 0.05 is kept in percent
generateEndlessWave(index, baseWaves) ==
  LET baseCount == Len(baseWaves)
      cyclePosition == index % baseCount
      cycleNumber == index \div baseCount
      baseWave == baseWaves[cyclePosition + 1]
      scalePct == 100 + cycleNumber * 50 + cyclePosition * 5
  IN  [waveNumber |-> index + 1,
       startDelay |-> Max(1000, baseWave.startDelay - cycleNumber * 50),
       enemies |->
         [g \in 1..Len(baseWave.enemies) |->
            [type |-> baseWave.enemies[g].type,
             count |-> RoundPercent(baseWave.enemies[g].count, scalePct),
             spawnDelay |-> Max(200, baseWave.enemies[g].spawnDelay - cycleNumber * 50)]]]

(***************************************************************************)
(* Numbers of the combat code (IEEE 754 binary64)                          *)
(*                                                                         *)
(* A non-negative double is m * 2^e with m an unbounded natural, kept as   *)
(* the sequence of its limbs, least significant first.  Every arithmetic   *)
(* operation computes the exact result and rounds it to 53 significant     *)
(* bits, ties to even, as the hardware does.  The values of the model are  *)
(* far from overflow and from the subnormal range.                         *)
(***************************************************************************)
LimbBits == 15
Base == 2^LimbBits

Limb(x, i) == IF i <= Len(x) THEN x[i] ELSE 0

\* without leading zero limbs
RECURSIVE BNorm(_)
BNorm(x) ==
  IF x = <<>> THEN x
  ELSE IF x[Len(x)] = 0 THEN BNorm(SubSeq(x, 1, Len(x) - 1))
  ELSE x

RECURSIVE BFromInt(_)
BFromInt(n) == IF n = 0 THEN <<>> ELSE <<n % Base>> \o BFromInt(n \div Base)

RECURSIVE BToInt(_)
BToInt(x) == IF x = <<>> THEN 0 ELSE x[1] + Base * BToInt(Tail(x))

RECURSIVE BAddFrom(_, _, _, _)
BAddFrom(x, y, i, carry) ==
  IF i > Len(x) /\ i > Len(y)
    THEN IF carry = 0 THEN <<>> ELSE <<carry>>
    ELSE LET sum == Limb(x, i) + Limb(y, i) + carry
         IN  <<sum % Base>> \o BAddFrom(x, y, i + 1, sum \div Base)

BAdd(x, y) == BAddFrom(x, y, 1, 0)

RECURSIVE BSubFrom(_, _, _, _)
BSubFrom(x, y, i, borrow) ==
  IF i > Len(x) THEN <<>>
  ELSE LET diff == Limb(x, i) - Limb(y, i) - borrow
       IN  IF diff < 0
             THEN <<diff + Base>> \o BSubFrom(x, y, i + 1, 1)
             ELSE <<diff>> \o BSubFrom(x, y, i + 1, 0)

\* x - y for x >= y
BSub(x, y) == BNorm(BSubFrom(x, y, 1, 0))

\* x < y, from the most significant limb down
RECURSIVE BLessFrom(_, _, _)
BLessFrom(x, y, i) ==
  IF i = 0 THEN FALSE
  ELSE IF x[i] # y[i] THEN x[i] < y[i]
  ELSE BLessFrom(x, y, i - 1)

BLess(x, y) ==
  IF Len(x) # Len(y) THEN Len(x) < Len(y) ELSE BLessFrom(x, y, Len(x))

RECURSIVE BMulSmallFrom(_, _, _, _)
BMulSmallFrom(x, k, i, carry) ==
  IF i > Len(x)
    THEN IF carry = 0 THEN <<>> ELSE <<carry>>
    ELSE LET prod == x[i] * k + carry
         IN  <<prod % Base>> \o BMulSmallFrom(x, k, i + 1, prod \div Base)

\* x * k for 0 <= k < Base
BMulSmall(x, k) == IF k = 0 THEN <<>> ELSE BMulSmallFrom(x, k, 1, 0)

\* x * Base^n
RECURSIVE BShiftLimbs(_, _)
BShiftLimbs(x, n) ==
  IF x = <<>> \/ n = 0 THEN x ELSE BShiftLimbs(<<0>> \o x, n - 1)

RECURSIVE BMul(_, _)
BMul(x, y) ==
  IF y = <<>> THEN <<>>
  ELSE BAdd(BMulSmall(x, y[1]), BShiftLimbs(BMul(x, Tail(y)), 1))

\* x * 2^n
BShl(x, n) ==
  BShiftLimbs(BMulSmall(x, 2^(n % LimbBits)), n \div LimbBits)

\* floor(x / k) for 0 < k <= Base, from the most significant limb down
RECURSIVE BDivSmallFrom(_, _, _, _)
BDivSmallFrom(x, k, i, rem) ==
  IF i = 0 THEN <<>>
  ELSE LET cur == rem * Base + x[i]
       IN  BDivSmallFrom(x, k, i - 1, cur % k) \o <<cur \div k>>

BDivSmall(x, k) == BNorm(BDivSmallFrom(x, k, Len(x), 0))

\* floor(x / 2^n)
BShr(x, n) ==
  LET limbs == n \div LimbBits
  IN  IF limbs >= Len(x) THEN <<>>
      ELSE BDivSmall(SubSeq(x, limbs + 1, Len(x)), 2^(n % LimbBits))

RECURSIVE BitLenSmall(_)
BitLenSmall(k) == IF k = 0 THEN 0 ELSE 1 + BitLenSmall(k \div 2)

\* the number of significant bits of x
BBitLen(x) ==
  IF x = <<>> THEN 0
  ELSE LimbBits * (Len(x) - 1) + BitLenSmall(x[Len(x)])

\* bit i of x, bit 0 the least significant
BBit(x, i) == (Limb(x, i \div LimbBits + 1) \div 2^(i % LimbBits)) % 2

BIsOdd(x) == Limb(x, 1) % 2 = 1

BOne == <<1>>

\* the quotient q2 and the remainder r2 of a division step, reduced by y
BDivReduce(q2, r2, y) ==
  IF BLess(r2, y)
    THEN [q |-> q2, r |-> r2]
    ELSE [q |-> BAdd(q2, BOne), r |-> BSub(r2, y)]

\* one step of the long division: the next bit of the dividend enters the
\* remainder
BDivStep(st, bit, y) ==
  BDivReduce(BAdd(st.q, st.q),
             BAdd(BAdd(st.r, st.r), IF bit = 1 THEN BOne ELSE <<>>), y)

\* n steps of the long division from bit i of x downwards; st2 is the
\* state after the step of bit i
RECURSIVE BDivBits(_, _, _, _, _)
RECURSIVE BDivBitsAfter(_, _, _, _, _)
BDivBitsAfter(x, y, i, n, st2) ==
  IF BLess(st2.r, y) THEN BDivBits(x, y, i - 1, n - 1, st2) ELSE st2

BDivBits(x, y, i, n, st) ==
  IF n = 0 \/ i < 0 THEN st
  ELSE BDivBitsAfter(x, y, i, n, BDivStep(st, BBit(x, i), y))

\* the long division, one limb of bits at a time; st2 is the state after
\* the bits of the limb of bit i
RECURSIVE BDivLimbs(_, _, _, _)
RECURSIVE BDivLimbsAfter(_, _, _, _)
BDivLimbsAfter(x, y, i, st2) ==
  IF BLess(st2.r, y) THEN BDivLimbs(x, y, i - LimbBits, st2) ELSE st2

BDivLimbs(x, y, i, st) ==
  IF i < 0 THEN st
  ELSE BDivLimbsAfter(x, y, i, BDivBits(x, y, i, LimbBits, st))

\* floor(x / y) and x mod y for y > 0
BDivMod(x, y) == BDivLimbs(x, y, BBitLen(x) - 1, [q |-> <<>>, r |-> <<>>])

\* the significand of a double has 53 bits
Precision == 53

Double(m, e) == [m |-> m, e |-> e]

\* q rounded up when the bits rounded away are more than half, or half
\* with q odd
RoundTies(q, rest, half, e) ==
  Double(IF BLess(half, rest) \/ (rest = half /\ BIsOdd(q)) THEN BAdd(q, BOne)
                                                             ELSE q, e)

\* m * 2^e with the k lowest bits of m rounded away, q = floor(m / 2^k)
RoundAway(m, e, k, q) ==
  RoundTies(q, BSub(m, BShl(q, k)), BShl(BOne, k - 1), e + k)

RoundBits(m, e, k) == IF k <= 0 THEN Double(m, e) ELSE RoundAway(m, e, k, BShr(m, k))

\* the exact value m * 2^e rounded to the nearest double, ties to even
Round(m, e) == RoundBits(m, e, BBitLen(m) - Precision)

\* an integer as a double (exact below 2^53)
DFromInt(n) == Double(BFromInt(n), 0)

Min(a, b) == IF a <= b THEN a ELSE b

\* x + y
DAdd(x, y) ==
  LET e == Min(x.e, y.e)
  IN  Round(BAdd(BShl(x.m, x.e - e), BShl(y.m, y.e - e)), e)

\* x - y for x >= y
DSub(x, y) ==
  LET e == Min(x.e, y.e)
  IN  Round(BSub(BShl(x.m, x.e - e), BShl(y.m, y.e - e)), e)

\* x * y
DMul(x, y) == Round(BMul(x.m, y.m), x.e + y.e)

\* the quotient of d with a sticky last bit for a non-zero remainder
DDivSticky(d, e) ==
  Round(BAdd(BAdd(d.q, d.q), IF d.r = <<>> THEN <<>> ELSE BOne), e)

DDivBits(x, y, k) == DDivSticky(BDivMod(BShl(x.m, k), y.m), x.e - y.e - k - 1)

\* x / y for y > 0: enough quotient bits for the rounding, the last one
\* sticky for a non-zero remainder
DDiv(x, y) ==
  IF x.m = <<>> THEN x
  ELSE DDivBits(x, y, Max(0, Precision + 3 + BBitLen(y.m) - BBitLen(x.m)))

\* x < y
DLess(x, y) ==
  LET e == Min(x.e, y.e)
  IN  BLess(BShl(x.m, x.e - e), BShl(y.m, y.e - e))

\* truncation instead of rounding
MathRound_Truncate(x) ==
  IF x.e >= 0 THEN BToInt(BShl(x.m, x.e))
  ELSE BToInt(BShr(x.m, 0 - x.e))

\* Math.round(x): the nearest integer, halves towards +Infinity
MathRound(x) ==
  IF x.e >= 0 THEN BToInt(BShl(x.m, x.e))
  ELSE BToInt(BShr(BAdd(x.m, BShl(BOne, 0 - x.e - 1)), 0 - x.e))

\* a decimal literal n/d of the source text
Literal(n, d) == DDiv(DFromInt(n), DFromInt(d))

\* the literals 0.7 and 0.5
PointSeven == Literal(7, 10)
PointFive == Literal(1, 2)

(***************************************************************************)
(* Combat types and entities (src/src/types/combat.ts, Projectile,         *)
(* Enemy, Entity)                                                          *)
(*                                                                         *)
(* Positions are integers; the entities of the model lie on the line       *)
(* y = 0 and have even sizes, so bounds and distances are integers.        *)
(***************************************************************************)
BULLET == "bullet"
ARROW == "arrow"
MAGIC == "magic"
ProjectileType == {BULLET, ARROW, MAGIC}

PHYSICAL == "physical"
MAGICAL == "magical"
TRUE_DAMAGE == "true"
DamageType == {PHYSICAL, MAGICAL, TRUE_DAMAGE}

\* PROJECTILE_CONFIGS; areaRadius 0 where the configuration has none
PROJECTILE_CONFIGS ==
  [t \in ProjectileType |->
     CASE t = BULLET ->
            [type |-> BULLET, damage |-> 10, speed |-> 8, size |-> 4,
             pierce |-> 1, areaRadius |-> 0]
       [] t = ARROW ->
            [type |-> ARROW, damage |-> 15, speed |-> 5, size |-> 8,
             pierce |-> 2, areaRadius |-> 0]
       [] t = MAGIC ->
            [type |-> MAGIC, damage |-> 25, speed |-> 3, size |-> 10,
             pierce |-> 0, areaRadius |-> 40]]

\* ENEMY_CONFIGS
ENEMY_CONFIGS ==
  [basic |-> [maxHealth |-> 100, armor |-> 0, size |-> 20],
   tank |-> [maxHealth |-> 300, armor |-> 50, size |-> 30],
   flying |-> [maxHealth |-> 80, armor |-> 10, size |-> 18]]

\* the largest k of lo..hi with k * k <= n
RECURSIVE SqrtBetween(_, _, _)
SqrtBetween(lo, hi, n) ==
  IF lo = hi THEN lo
  ELSE LET mid == (lo + hi + 1) \div 2
       IN  IF mid * mid <= n THEN SqrtBetween(mid, hi, n)
           ELSE SqrtBetween(lo, mid - 1, n)

\* Math.sqrt of a perfect square
Sqrt(n) == CHOOSE k \in {SqrtBetween(0, n, n)} : k * k = n

\* new Projectile(options); the shots of the model fly along an axis, so
\* the components of the direction are integers
NewProjectile(id, startPosition, targetPosition, config) ==
  LET dx == targetPosition.x - startPosition.x
      dy == targetPosition.y - startPosition.y
      length == Sqrt(dx * dx + dy * dy)
  IN  [id |-> id,
       config |-> config,
       x |-> startPosition.x,
       y |-> startPosition.y,
       width |-> config.size,
       height |-> config.size,
       targetPosition |-> targetPosition,
       directionX |-> dx \div length,
       directionY |-> dy \div length,
       maxDistance |-> (length * 3) \div 2,
       distanceTraveled |-> 0,
       isActive |-> TRUE,
       hitCount |-> 0,
       hitTargetIds |-> {}]

\* new Enemy(config), placed at (x, 0) with the given health
NewEnemy(id, kind, x, health) ==
  [id |-> id,
   x |-> x,
   y |-> 0,
   width |-> ENEMY_CONFIGS[kind].size,
   height |-> ENEMY_CONFIGS[kind].size,
   health |-> health,
   maxHealth |-> ENEMY_CONFIGS[kind].maxHealth,
   armor |-> ENEMY_CONFIGS[kind].armor,
   isActive |-> TRUE]

\* Entity.getEntityBounds()
getEntityBounds(e) ==
  [x |-> e.x - e.width \div 2,
   y |-> e.y - e.height \div 2,
   width |-> e.width,
   height |-> e.height]

\* Entity.deactivate()
deactivate(e) == [e EXCEPT !.isActive = FALSE]

\* Entity.distanceTo(target)
distanceTo(e, target) ==
  Sqrt((target.x - e.x) * (target.x - e.x) + (target.y - e.y) * (target.y - e.y))

\* Projectile.pierceRemaining: Infinity for pierce 0
pierceRemaining(p) ==
  IF p.config.pierce = 0
    THEN [infinite |-> TRUE, value |-> 0]
    ELSE [infinite |-> FALSE, value |-> p.config.pierce - p.hitCount]

\* v > 0
Positive(v) == v.infinite \/ v.value > 0

\* Projectile.hasAreaDamage
hasAreaDamage(p) == p.config.pierce = 0 /\ p.config.areaRadius > 0

\* Projectile.getDamageInfo()
getDamageInfo(p) ==
  [amount |-> DFromInt(p.config.damage),
   type |-> IF p.config.type = MAGIC THEN MAGICAL ELSE PHYSICAL]

\* canHitTarget without the set of the ids already hit
canHitTarget_IgnoreIds(p, targetId) == Positive(pierceRemaining(p))

\* Projectile.canHitTarget(targetId)
canHitTarget(p, targetId) ==
  targetId \notin p.hitTargetIds /\ Positive(pierceRemaining(p))

\* Projectile.registerHit(targetId): the projectile after the call; the
\* result of the call is pierceRemaining > 0 on it
registerHit(p, targetId) ==
  [p EXCEPT !.hitTargetIds = @ \cup {targetId}, !.hitCount = @ + 1]

\* Projectile.hasReachedTarget()
hasReachedTarget(p) == distanceTo(p, p.targetPosition) < p.config.speed * 2

\* Projectile.update(deltaTime)
Projectile_update(p, deltaTime) ==
  IF ~p.isActive THEN p
  ELSE LET moveDistance == p.config.speed * deltaTime
           p1 == [p EXCEPT !.x = @ + p.directionX * moveDistance,
                           !.y = @ + p.directionY * moveDistance,
                           !.distanceTraveled = @ + moveDistance]
       IN  IF p1.distanceTraveled >= p1.maxDistance THEN deactivate(p1) ELSE p1

\* Projectile.isExpired
isExpired(p) == p.distanceTraveled >= p.maxDistance \/ ~p.isActive

\* Enemy.isAlive
isAlive(t) == t.health > 0 /\ t.isActive

\* Enemy.takeDamage(damage), amount = damage.amount
takeDamage(t, amount) ==
  IF ~isAlive(t) THEN t
  ELSE LET t1 == [t EXCEPT !.health = Max(0, @ - amount)]
       IN  IF t1.health <= 0 THEN deactivate(t1) ELSE t1

(***************************************************************************)
(* CombatSystem (src/src/systems/CombatSystem.ts)                          *)
(*                                                                         *)
(* c is the system with its targets and the projectiles of its projectile  *)
(* manager, both in insertion order; c.log collects the calls and events   *)
(* of the running operation.                                               *)
(***************************************************************************)
\* calculateDamage without the minimum of 1 after the armor formula
calculateDamage_NoFloor(damageInfo, target) ==
  IF damageInfo.type = TRUE_DAMAGE THEN Max(1, MathRound(damageInfo.amount))
  ELSE LET armor == DFromInt(target.armor)
           effectiveArmor ==
             IF damageInfo.type = MAGICAL
               THEN DMul(armor, PointSeven)
               ELSE armor
           reduction == DDiv(effectiveArmor, DAdd(effectiveArmor, DFromInt(100)))
           damage == DMul(damageInfo.amount, DSub(DFromInt(1), reduction))
       IN  MathRound(damage)

\* calculateDamage(damageInfo, target)
calculateDamage(damageInfo, target) ==
  IF damageInfo.type = TRUE_DAMAGE THEN Max(1, MathRound(damageInfo.amount))
  ELSE LET armor == DFromInt(target.armor)
           effectiveArmor ==
             IF damageInfo.type = MAGICAL
               THEN DMul(armor, PointSeven)
               ELSE armor
           reduction == DDiv(effectiveArmor, DAdd(effectiveArmor, DFromInt(100)))
           damage == DMul(damageInfo.amount, DSub(DFromInt(1), reduction))
       IN  Max(1, MathRound(damage))

\* an entry of the log: a call made on a target (takeDamage, registerHit,
\* onDeath) or an event emitted (target 0 for the event of an area impact);
\* alive
\* is the target's isAlive when the hit began to be resolved, base the
\* amount before armor, distance the distance of an area hit
LogEntry(kind, projectile, target, alive, base, distance, amount) ==
  [kind |-> kind, projectile |-> projectile, target |-> target,
   alive |-> alive, base |-> base, distance |-> distance, amount |-> amount]

\* the system right after its constructor, with an empty projectile manager
NewCombatSystem ==
  [targets |-> <<>>, projectiles |-> <<>>, spawned |-> 0, log |-> <<>>]

\* registerTarget(target)
registerTarget(c, target) == [c EXCEPT !.targets = Append(@, target)]

\* ProjectileManager.spawnFromConfig(options)
spawnFromConfig(c, startPosition, targetPosition, config) ==
  [c EXCEPT !.spawned = @ + 1,
            !.projectiles =
               Append(@, NewProjectile(c.spawned + 1, startPosition,
                                       targetPosition, config))]

\* ProjectileManager.update(deltaTime): update every projectile, remove the
\* expired ones
ProjectileManager_update(c, deltaTime) ==
  LET updated == [i \in 1..Len(c.projectiles) |->
                    Projectile_update(c.projectiles[i], deltaTime)]
  IN  [c EXCEPT !.projectiles = SelectSeq(updated, LAMBDA p : ~isExpired(p))]

\* getAliveTargets(): the indices of the targets alive now, in order
getAliveTargets(c) ==
  SelectSeq([k \in 1..Len(c.targets) |-> k], LAMBDA k : isAlive(c.targets[k]))

\* checkCollision(projectile, target)
checkCollision(projectile, target) ==
  LET pBounds == getEntityBounds(projectile)
      tBounds == getEntityBounds(target)
  IN  /\ pBounds.x < tBounds.x + tBounds.width
      /\ pBounds.x + pBounds.width > tBounds.x
      /\ pBounds.y < tBounds.y + tBounds.height
      /\ pBounds.y + pBounds.height > tBounds.y

\* isInRadius(target, center, radius)
isInRadius(target, center, radius) ==
  LET dx == target.x - center.x
      dy == target.y - center.y
  IN  dx * dx + dy * dy <= radius * radius

\* the rest of processHit once finalDamage is calculated: takeDamage,
\* registerHit, the events, and the projectile deactivated when it cannot
\* continue
resolveHit(c, i, k, finalDamage) ==
  LET projectile == c.projectiles[i]
      target == c.targets[k]
      target1 == takeDamage(target, finalDamage)
      projectile1 == registerHit(projectile, target.id)
      continueFlying == Positive(pierceRemaining(projectile1))
      entry(kind) == LogEntry(kind, projectile.id, target.id, isAlive(target),
                              getDamageInfo(projectile).amount, -1, finalDamage)
      events == <<entry("takeDamage"), entry("registerHit"),
                  entry("projectile_hit"), entry("target_damaged")>>
                \o (IF ~isAlive(target1)
                      THEN <<entry("target_killed"), entry("onDeath")>>
                      ELSE <<>>)
  IN  [c EXCEPT !.targets[k] = target1,
                !.projectiles[i] =
                   IF continueFlying THEN projectile1 ELSE deactivate(projectile1),
                !.log = @ \o events]

\* processHit that calls onDeath and does not emit target_killed
processHit_SilentKill(c, i, k) ==
  LET c1 == resolveHit(c, i, k,
                       calculateDamage(getDamageInfo(c.projectiles[i]),
                                       c.targets[k]))
  IN  [c1 EXCEPT !.log = SelectSeq(@, LAMBDA e : e.kind # "target_killed")]

\* processHit(projectile, target) on projectile i and target k
processHit(c, i, k) ==
  resolveHit(c, i, k, calculateDamage(getDamageInfo(c.projectiles[i]), c.targets[k]))

\* the falloff applied after the armor formula
AreaDamage_FalloffLast(damageInfo, target, distance, radius) ==
  [baseDamage |->
     DMul(damageInfo.amount,
          DSub(DFromInt(1),
               DMul(DDiv(DFromInt(distance), DFromInt(radius)), PointFive))),
   finalDamage |->
     Max(1, MathRound(
       DMul(DFromInt(calculateDamage(damageInfo, target)),
            DSub(DFromInt(1),
                 DMul(DDiv(DFromInt(distance), DFromInt(radius)), PointFive)))))]

\* the armor formula on the damage after the falloff
AreaDamageOf(damageInfo, target, baseDamage) ==
  [baseDamage |-> baseDamage,
   finalDamage |-> calculateDamage([damageInfo EXCEPT !.amount = baseDamage],
                                   target)]

\* the damage of one target of processAreaDamage: falloff, then armor
AreaDamage(damageInfo, target, distance, radius) ==
  AreaDamageOf(damageInfo, target,
               DMul(damageInfo.amount,
                    DSub(DFromInt(1),
                         DMul(DDiv(DFromInt(distance), DFromInt(radius)),
                              PointFive))))

\* the rest of one iteration of processAreaDamage once the damage of the
\* target at distance is calculated: takeDamage, registerHit, the events
resolveAreaHit(c, i, k, distance, damage) ==
  LET projectile == c.projectiles[i]
      target == c.targets[k]
      target1 == takeDamage(target, damage.finalDamage)
      entry(kind) == LogEntry(kind, projectile.id, target.id, isAlive(target),
                              damage.baseDamage, distance, damage.finalDamage)
      events == <<entry("takeDamage"), entry("registerHit"),
                  entry("target_damaged")>>
                \o (IF ~isAlive(target1)
                      THEN <<entry("target_killed"), entry("onDeath")>>
                      ELSE <<>>)
  IN  [c EXCEPT !.targets[k] = target1,
                !.projectiles[i] = registerHit(projectile, target.id),
                !.log = @ \o events]

\* the loop of processAreaDamage over hitTargets, from its n-th entry
RECURSIVE AreaLoop(_, _, _, _)
AreaLoop(c, i, hitTargets, n) ==
  IF n > Len(hitTargets) THEN c
  ELSE AreaLoop(
         resolveAreaHit(c, i, hitTargets[n],
                        distanceTo(c.projectiles[i], c.targets[hitTargets[n]]),
                        AreaDamage(getDamageInfo(c.projectiles[i]),
                                   c.targets[hitTargets[n]],
                                   distanceTo(c.projectiles[i],
                                              c.targets[hitTargets[n]]),
                                   c.projectiles[i].config.areaRadius)),
         i, hitTargets, n + 1)

\* the targets of the snapshot in the radius that the projectile can hit
areaTargets(c, i, targets) ==
  SelectSeq(targets,
            LAMBDA k : /\ isInRadius(c.targets[k],
                                     [x |-> c.projectiles[i].x,
                                      y |-> c.projectiles[i].y],
                                     c.projectiles[i].config.areaRadius)
                       /\ canHitTarget(c.projectiles[i], c.targets[k].id))

\* processAreaDamage that leaves the projectile active
processAreaDamage_StayActive(c, i, targets) ==
  [AreaLoop(c, i, areaTargets(c, i, targets), 1) EXCEPT
     !.log = Append(@, LogEntry("projectile_hit", c.projectiles[i].id, 0, TRUE,
                                getDamageInfo(c.projectiles[i]).amount, -1, 0))]

\* processAreaDamage(projectile, targets) on projectile i
processAreaDamage(c, i, targets) ==
  [AreaLoop(c, i, areaTargets(c, i, targets), 1) EXCEPT
     !.projectiles[i] = deactivate(@),
     !.log = Append(@, LogEntry("projectile_hit", c.projectiles[i].id, 0, TRUE,
                                getDamageInfo(c.projectiles[i]).amount, -1, 0))]

\* the inner loop of update: the direct collisions of projectile i with
\* aliveTargets, from its n-th entry; c1 is the system after processHit on
\* that entry
RECURSIVE CollisionLoop(_, _, _, _)
RECURSIVE CollisionLoopAfterHit(_, _, _, _)
CollisionLoopAfterHit(c1, i, aliveTargets, n) ==
  IF ~c1.projectiles[i].isActive THEN c1
  ELSE CollisionLoop(c1, i, aliveTargets, n + 1)

CollisionLoop(c, i, aliveTargets, n) ==
  IF n > Len(aliveTargets) THEN c
  ELSE IF ~canHitTarget(c.projectiles[i], c.targets[aliveTargets[n]].id)
    THEN CollisionLoop(c, i, aliveTargets, n + 1)
  ELSE IF checkCollision(c.projectiles[i], c.targets[aliveTargets[n]])
    THEN CollisionLoopAfterHit(processHit(c, i, aliveTargets[n]), i, aliveTargets, n)
  ELSE CollisionLoop(c, i, aliveTargets, n + 1)

\* the outer loop of update, from projectile i
RECURSIVE ProjectileLoop(_, _, _)
ProjectileLoop(c, i, aliveTargets) ==
  IF i > Len(c.projectiles) THEN c
  ELSE IF ~c.projectiles[i].isActive
    THEN ProjectileLoop(c, i + 1, aliveTargets)
  ELSE IF hasAreaDamage(c.projectiles[i]) /\ hasReachedTarget(c.projectiles[i])
    THEN ProjectileLoop(processAreaDamage(c, i, aliveTargets), i + 1, aliveTargets)
  ELSE ProjectileLoop(CollisionLoop(c, i, aliveTargets, 1), i + 1, aliveTargets)

\* CombatSystem.update(deltaTime)
CombatSystem_update(c) == ProjectileLoop(c, 1, getAliveTargets(c))

\* no input drawn for calculateDamage
NoCalc ==
  [num |-> 0, den |-> 1, armor |-> 0, done |-> FALSE,
   physical |-> 0, magical |-> 0, trueDamage |-> 0]

\* a combat system nothing was registered with
CombatIdle ==
  /\ cs = NewCombatSystem
  /\ calc = NoCalc

(***************************************************************************)
(* SpatialGrid (src/unnamed/part_009)                                      *)
(*                                                                         *)
(* A Map is a function whose domain is the set of its keys.  A Set of      *)
(* entities is the sequence of its members in insertion order, which is    *)
(* the order a JavaScript Set is iterated in; a Set of cell indices is a   *)
(* set, no code depends on its order.                                      *)
(***************************************************************************)
\* the absent optional argument, and the key of no entity
Undefined == "undefined"

EmptyMap == [k \in {} |-> {}]

MapHas(map, key) == key \in DOMAIN map

MapSet(map, key, value) ==
  [k \in DOMAIN map \cup {key} |-> IF k = key THEN value ELSE map[k]]

MapDelete(map, key) == [k \in DOMAIN map \ {key} |-> map[k]]

Members(list) == {list[i] : i \in 1..Len(list)}

\* Set.prototype.add on a Set kept in insertion order
SetAdd(list, member) ==
  IF member \in Members(list) THEN list ELSE Append(list, member)

\* Set.prototype.delete
SetDelete(list, member) == SelectSeq(list, LAMBDA x : x # member)

\* Math.floor(a / b) and Math.ceil(a / b) for integers a and b > 0
Floor(a, b) == IF a >= 0 THEN a \div b ELSE -((b - 1 - a) \div b)
Ceil(a, b) == -Floor(-a, b)

\* new SpatialGrid(worldWidth, worldHeight, cellSize)
NewSpatialGrid(worldWidth, worldHeight, cellSize) ==
  [cellSize |-> cellSize,
   cols |-> Ceil(worldWidth, cellSize),
   rows |-> Ceil(worldHeight, cellSize),
   cells |-> EmptyMap,
   entityCells |-> EmptyMap]

\* getCellIndices(bounds): the indices in the order the two loops push them
getCellIndices(g, bounds) ==
  LET minCol == Max(0, Floor(bounds.x, g.cellSize))
      maxCol == Min(g.cols - 1, Floor(bounds.x + bounds.width, g.cellSize))
      minRow == Max(0, Floor(bounds.y, g.cellSize))
      maxRow == Min(g.rows - 1, Floor(bounds.y + bounds.height, g.cellSize))
      width == Max(0, maxCol - minCol + 1)
      height == Max(0, maxRow - minRow + 1)
  IN  [n \in 1..(width * height) |->
         (minRow + ((n - 1) \div width)) * g.cols + minCol + ((n - 1) % width)]

\* the body of the loop of insert: this.cells.get(index).add(entity), the
\* cell created when it is missing, and entityCellSet.add(index)
insertIndex(g, entity, index) ==
  [g EXCEPT
     !.cells = MapSet(@, index,
                      SetAdd(IF MapHas(@, index) THEN @[index] ELSE <<>>, entity)),
     !.entityCells = MapSet(@, entity, @[entity] \cup {index})]

RECURSIVE insertLoop(_, _, _, _)
insertLoop(g, entity, indices, i) ==
  IF i > Len(indices) THEN g
  ELSE insertLoop(insertIndex(g, entity, indices[i]), entity, indices, i + 1)

\* insert(entity, bounds)
SpatialGrid_insert(g, entity, bounds) ==
  insertLoop(IF MapHas(g.entityCells, entity) THEN g
             ELSE [g EXCEPT !.entityCells = MapSet(@, entity, {})],
             entity, getCellIndices(g, bounds), 1)

\* cell.delete(entity) for the cells of indices, a cell left empty is dropped
deleteFromCells(cells, entity, indices) ==
  LET deleted == [k \in DOMAIN cells |->
                    IF k \in indices THEN SetDelete(cells[k], entity) ELSE cells[k]]
  IN  [k \in {c \in DOMAIN cells : c \notin indices \/ deleted[c] # <<>>} |->
         deleted[k]]

\* remove(entity) that forgets the entity and leaves it in its cells
SpatialGrid_remove_KeepCells(g, entity) ==
  IF ~MapHas(g.entityCells, entity) THEN g
  ELSE [g EXCEPT !.entityCells = MapDelete(@, entity)]

\* remove(entity)
SpatialGrid_remove(g, entity) ==
  IF ~MapHas(g.entityCells, entity) THEN g
  ELSE [g EXCEPT !.cells = deleteFromCells(@, entity, g.entityCells[entity]),
                 !.entityCells = MapDelete(@, entity)]

\* the second loop of update: the entity enters the cells it was not in
addToCells(cells, entity, indices) ==
  [k \in DOMAIN cells \cup indices |->
     IF k \in indices
       THEN SetAdd(IF MapHas(cells, k) THEN cells[k] ELSE <<>>, entity)
       ELSE cells[k]]

\* update(entity, bounds) that adds the new cells and keeps the old ones
SpatialGrid_update_KeepOld(g, entity, bounds) ==
  SpatialGrid_insert(g, entity, bounds)

\* update(entity, bounds)
SpatialGrid_update(g, entity, bounds) ==
  IF ~MapHas(g.entityCells, entity) THEN SpatialGrid_insert(g, entity, bounds)
  ELSE LET newCellIndices == Members(getCellIndices(g, bounds))
           oldCellSet == g.entityCells[entity]
       IN  [g EXCEPT
              !.cells = addToCells(
                          deleteFromCells(@, entity, oldCellSet \ newCellIndices),
                          entity, newCellIndices \ oldCellSet),
              !.entityCells = MapSet(@, entity,
                                (oldCellSet \cap newCellIndices)
                                  \cup (newCellIndices \ oldCellSet))]

\* candidates.add(entity) that keeps every occurrence
candidatesAdd_Push(candidates, entity) == Append(candidates, entity)

\* candidates.add(entity)
candidatesAdd(candidates, entity) == SetAdd(candidates, entity)

\* the inner loop of query over one cell
RECURSIVE queryCellLoop(_, _, _, _)
queryCellLoop(cell, j, exclude, candidates) ==
  IF j > Len(cell) THEN candidates
  ELSE queryCellLoop(cell, j + 1, exclude,
                     IF cell[j] # exclude THEN candidatesAdd(candidates, cell[j])
                     ELSE candidates)

\* the outer loop of query over the cell indices
RECURSIVE queryLoop(_, _, _, _, _)
queryLoop(g, indices, i, exclude, candidates) ==
  IF i > Len(indices) THEN candidates
  ELSE queryLoop(g, indices, i + 1, exclude,
                 IF MapHas(g.cells, indices[i])
                   THEN queryCellLoop(g.cells[indices[i]], 1, exclude, candidates)
                   ELSE candidates)

\* query(bounds, exclude): Array.from(candidates)
SpatialGrid_query(g, bounds, exclude) ==
  queryLoop(g, getCellIndices(g, bounds), 1, exclude, <<>>)

\* clear()
SpatialGrid_clear(g) == [g EXCEPT !.cells = EmptyMap, !.entityCells = EmptyMap]

\* get entityCount / get cellCount
entityCount(g) == Cardinality(DOMAIN g.entityCells)
cellCount(g) == Cardinality(DOMAIN g.cells)

\* the grid of the tests: new SpatialGrid(640, 480, 64)
WorldWidth == 640
WorldHeight == 480
CellSize == 64

Box(x, y, width, height) == [x |-> x, y |-> y, width |-> width, height |-> height]

Entities == {"a", "b"}

\* one cell, the same cell again, four cells, a far cell, and the two boxes
\* outside the world
GridBoxes ==
  {Box(100, 100, 10, 10), Box(105, 105, 10, 10), Box(60, 60, 40, 40),
   Box(200, 200, 20, 20), Box(-50, -50, 20, 20), Box(1000, 1000, 20, 20)}

QueryBoxes ==
  {Box(50, 50, 60, 60), Box(190, 190, 40, 40), Box(-10, -10, 20, 20),
   Box(-50, -50, 20, 20), Box(1000, 1000, 20, 20)}

GridCall(op, entity, bounds, exclude, result) ==
  [op |-> op, entity |-> entity, bounds |-> bounds, exclude |-> exclude,
   result |-> result, present |-> MapHas(grid.entityCells, entity)]

GridIdle ==
  /\ grid = NewSpatialGrid(WorldWidth, WorldHeight, CellSize)
  /\ gridCall = [op |-> "none", entity |-> Undefined, bounds |-> Box(0, 0, 0, 0),
                 exclude |-> Undefined, result |-> <<>>, present |-> FALSE]

(***************************************************************************)
(* ObjectPool (src/src/systems/index.ts)                                   *)
(*                                                                         *)
(* The objects the factory makes are numbered 1, 2, ... in the order of    *)
(* its calls; p.created is the number of calls so far.  p.pool is the      *)
(* array of available objects, p.activeObjects the Set of active ones in   *)
(* insertion order, p.resets the objects the reset hook was run on by the  *)
(* last operation.                                                         *)
(***************************************************************************)
\* an object that no factory call of this pool returned
Foreign == 0

\* this.pool.push(this.factory()), count times
RECURSIVE pushFresh(_, _)
pushFresh(p, count) ==
  IF count <= 0 THEN p
  ELSE pushFresh([p EXCEPT !.pool = Append(@, p.created + 1),
                           !.created = @ + 1],
                 count - 1)

\* new ObjectPool(factory, initialSize, maxSize)
NewObjectPool(initialSize, maxSize) ==
  pushFresh([pool |-> <<>>, activeObjects |-> <<>>, maxSize |-> maxSize,
             created |-> 0, resets |-> <<>>],
            initialSize)

\* an operation starts with no reset hook run
PoolBegin(p) == [p EXCEPT !.resets = <<>>]

\* acquire(): the pool after the call; the object returned is the last
\* member of its activeObjects
acquire(p) ==
  IF Len(p.pool) > 0
    THEN [p EXCEPT !.pool = SubSeq(@, 1, Len(@) - 1),
                   !.activeObjects = SetAdd(@, p.pool[Len(p.pool)])]
    ELSE [p EXCEPT !.created = @ + 1,
                   !.activeObjects = SetAdd(@, p.created + 1)]

\* the reset hook runs on obj, and obj returns to the pool if there is room
resetAndPush(p, obj) ==
  [p EXCEPT !.resets = Append(@, obj),
            !.pool = IF Len(@) < p.maxSize THEN Append(@, obj) ELSE @]

\* release(obj) without the check that obj is active
release_Unchecked(p, obj) ==
  resetAndPush([p EXCEPT !.activeObjects = SetDelete(@, obj)], obj)

\* release(obj)
release(p, obj) ==
  IF obj \notin Members(p.activeObjects) THEN p
  ELSE resetAndPush([p EXCEPT !.activeObjects = SetDelete(@, obj)], obj)

RECURSIVE releaseAllLoop(_, _, _)
releaseAllLoop(p, objects, i) ==
  IF i > Len(objects) THEN p
  ELSE releaseAllLoop(resetAndPush(p, objects[i]), objects, i + 1)

\* releaseAll() that does not empty the active set
releaseAll_KeepActive(p) == releaseAllLoop(p, p.activeObjects, 1)

\* releaseAll()
releaseAll(p) ==
  [releaseAllLoop(p, p.activeObjects, 1) EXCEPT !.activeObjects = <<>>]

\* clear()
ObjectPool_clear(p) == [p EXCEPT !.pool = <<>>, !.activeObjects = <<>>]

availableCount(p) == Len(p.pool)
activeCount(p) == Len(p.activeObjects)
totalCount(p) == Len(p.pool) + Len(p.activeObjects)

\* prewarm(targetCount)
prewarm(p, targetCount) ==
  pushFresh(p, Min(targetCount, p.maxSize) - totalCount(p))

\* the defaults of the constructor
DefaultInitialSize == 10
DefaultMaxSize == 100

PoolIdle ==
  /\ pool = NewObjectPool(DefaultInitialSize, DefaultMaxSize)
  /\ poolCall = [op |-> "none", obj |-> Foreign, active |-> FALSE]

(***************************************************************************)
(* GameStateManager (src/unnamed/part_019)                                 *)
(*                                                                         *)
(* Each method is an operator from the instance record m to the instance   *)
(* after the call.  m.notified collects the calls of notifyStateChange of  *)
(* the running operation as <<newState, oldState>>, m.emitted the event    *)
(* names passed to emitEvent.  Gold and score, which no state transition   *)
(* reads, are left out with the methods that only change them.             *)
(***************************************************************************)
LOADING == "loading"
MENU == "menu"
PLAYING == "playing"
PAUSED == "paused"
VICTORY == "victory"
GAME_OVER == "game_over"
GameState == {LOADING, MENU, PLAYING, PAUSED, VICTORY, GAME_OVER}

\* DEFAULT_GAME_STATE_DATA.lives and .totalWaves
DefaultLives == 20
DefaultTotalWaves == 10

\* createInitialData(config)
createInitialData(m) ==
  [m EXCEPT !.lives = m.initialLives, !.currentWave = 0, !.totalWaves = m.configWaves]

\* new GameStateManager({initialLives, totalWaves})
NewGameStateManager(initialLives, totalWaves) ==
  createInitialData([currentState |-> LOADING, lives |-> 0, currentWave |-> 0,
                     totalWaves |-> 0, initialLives |-> initialLives,
                     configWaves |-> totalWaves,
                     notified |-> <<>>, emitted |-> <<>>])

notifyStateChange(m, newState, oldState) ==
  [m EXCEPT !.notified = Append(@, <<newState, oldState>>)]

emitEvent(m, eventName) == [m EXCEPT !.emitted = Append(@, eventName)]

setState(m, newState) ==
  IF newState = m.currentState THEN m
  ELSE notifyStateChange([m EXCEPT !.currentState = newState],
                         newState, m.currentState)

transitionToMenu(m) == setState(m, MENU)

startGame(m) ==
  IF m.currentState = MENU \/ m.currentState = LOADING
    THEN emitEvent(setState(m, PLAYING), "gameStarted")
    ELSE m

\* pauseGame() without its guard
pauseGame_Unguarded(m) == emitEvent(setState(m, PAUSED), "gamePaused")

pauseGame(m) ==
  IF m.currentState = PLAYING
    THEN emitEvent(setState(m, PAUSED), "gamePaused")
    ELSE m

resumeGame(m) ==
  IF m.currentState = PAUSED
    THEN emitEvent(setState(m, PLAYING), "gameResumed")
    ELSE m

triggerGameOver(m) ==
  IF m.currentState = PLAYING
    THEN emitEvent(setState(m, GAME_OVER), "gameOver")
    ELSE m

triggerVictory(m) ==
  IF m.currentState = PLAYING
    THEN emitEvent(setState(m, VICTORY), "victory")
    ELSE m

\* the rest of loseLife once the lives are written
loseLifeAfter(m) == IF m.lives <= 0 THEN triggerGameOver(m) ELSE m

loseLife(m, amount) ==
  loseLifeAfter(emitEvent([m EXCEPT !.lives = Max(0, @ - amount)], "livesChanged"))

\* the rest of advanceWave once the wave is counted
advanceWaveAfter(m) ==
  IF m.currentWave > m.totalWaves THEN triggerVictory(m) ELSE m

advanceWave(m) ==
  advanceWaveAfter(emitEvent([m EXCEPT !.currentWave = @ + 1], "waveChanged"))

\* reset() without a config
GameStateManager_reset(m) == emitEvent(createInitialData(m), "gameReset")

restart(m) ==
  emitEvent(setState(GameStateManager_reset(m), PLAYING), "gameRestarted")

dispose(m) == createInitialData([m EXCEPT !.currentState = LOADING])

\* an operation starts with nothing notified and nothing emitted
GameBegin(m) == [m EXCEPT !.notified = <<>>, !.emitted = <<>>]

GameIdle ==
  /\ game = NewGameStateManager(DefaultLives, DefaultTotalWaves)
  /\ gameCall = [op |-> "none", from |-> LOADING]

\* the grid, the pool and the game state manager as constructed and unused
AuxIdle ==
  /\ GridIdle
  /\ PoolIdle
  /\ GameIdle

(***************************************************************************)
(* WaveManager (src/src/systems/WaveManager.ts)                            *)
(*                                                                         *)
(* Each method is an operator from the instance record m to the instance   *)
(* record after the call.  m.emitted collects the events passed to emit()  *)
(* during the running operation, m.requested the calls of transitionTo;    *)
(* m.threw is set when a statement throws, and every statement behind it   *)
(* is skipped.                                                             *)
(***************************************************************************)
Event(type, waveNumber, value) ==
  [type |-> type, waveNumber |-> waveNumber, value |-> value, enemyType |-> "none"]

\* emit(eventType, data)
emit(m, ev) == [m EXCEPT !.emitted = Append(@, ev)]

\* private get isActive()
isActive(m) == m.state # IDLE /\ m.state # COMPLETE

\* private get isCountingDown()
isCountingDown(m) == m.state = COUNTDOWN

\* `this.isCountingDown = ...`: the property has a getter and no setter.  In
\* strict code (an ES module, every class body) the assignment throws a
\* TypeError; in sloppy code it is silently ignored.  Either way no field is
\* written.
assignIsCountingDown(m) == IF strict THEN [m EXCEPT !.threw = TRUE] ELSE m

\* the table of transitionTo
validTransitions ==
  [s \in WaveManagerState |->
     CASE s = IDLE -> {COUNTDOWN}
       [] s = COUNTDOWN -> {SPAWNING, IDLE}
       [] s = SPAWNING -> {WAITING_FOR_CLEAR, IDLE}
       [] s = WAITING_FOR_CLEAR -> {COUNTDOWN, COMPLETE, IDLE}
       [] s = COMPLETE -> {IDLE}]

\* transitionTo without the check against the table
transitionTo_Unchecked(m, newState) ==
  [m EXCEPT !.state = newState,
            !.requested = Append(@, [from |-> m.state, to |-> newState,
                                     after |-> newState])]

\* transitionTo(newState)
transitionTo(m, newState) ==
  LET m1 == IF newState \in validTransitions[m.state]
              THEN [m EXCEPT !.state = newState]
              ELSE m
  IN  [m1 EXCEPT !.requested =
         Append(@, [from |-> m.state, to |-> newState, after |-> m1.state])]

\* resetStatistics()
resetStatistics(m) ==
  [m EXCEPT !.enemiesSpawnedThisWave = 0,
            !.enemiesKilledThisWave = 0,
            !.enemiesLeakedThisWave = 0,
            !.totalEnemiesKilled = 0,
            !.totalEnemiesLeaked = 0]

\* startCountdown(duration)
startCountdown(m, duration) ==
  LET m1 == assignIsCountingDown(m)
  IN  IF m1.threw THEN m1
      ELSE emit([m1 EXCEPT !.countdownTime = duration,
                           !.countdownElapsed = 0,
                           !.lastCountdownTick = 0],
                Event("countdown_started", m1.currentWaveIndex + 2, duration))

\* completeAllWaves()
completeAllWaves(m) ==
  LET m1 == transitionTo(m, COMPLETE)
  IN  emit(m1, Event("all_waves_completed", m1.currentWaveIndex + 1,
                     m1.totalEnemiesKilled + m1.totalEnemiesLeaked))

\* completeCurrentWave()
completeCurrentWave(m) ==
  LET m1 == emit(m, Event("wave_completed", m.currentWaveIndex + 1,
                          m.enemiesKilledThisWave + m.enemiesLeakedThisWave))
      m2 == [m1 EXCEPT !.totalEnemiesKilled = @ + m1.enemiesKilledThisWave,
                       !.totalEnemiesLeaked = @ + m1.enemiesLeakedThisWave]
  IN  IF ~endlessMode /\ m2.currentWaveIndex + 1 >= Len(waves)
        THEN completeAllWaves(m2)
        ELSE IF autoStartWaves
               THEN startCountdown(m2, timeBetweenWaves)
               ELSE m2

\* getWaveDefinition(index), index 0-based
getWaveDefinition(index) ==
  IF index < Len(waves) THEN waves[index + 1]
  ELSE IF endlessMode THEN generateEndlessWave(index, waves)
  ELSE waves[Len(waves)]

\* the scaled wave beginWave and spawnEnemy work on
scaledWave(index) == getScaledWaveDefinition(getWaveDefinition(index), difficulty)

\* the spawn queues buildSpawnQueue can produce when beginWave runs for index
QueuesFor(index) ==
  IF index >= 0 /\ (index < Len(waves) \/ (endlessMode /\ Len(waves) > 0))
    THEN buildSpawnQueue(scaledWave(index).enemies, spawnMode)
    ELSE {<<>>}

\* beginWave() that ends the run behind the last defined wave also in
\* endless mode
beginWave_IgnoreEndless(m, q) ==
  LET m1 == [m EXCEPT !.currentWaveIndex = @ + 1]
  IN  IF m1.currentWaveIndex >= Len(waves)
        THEN completeAllWaves(m1)
        ELSE LET scaled == scaledWave(m1.currentWaveIndex)
             IN  emit([transitionTo(m1, SPAWNING) EXCEPT
                         !.enemiesSpawnedThisWave = 0,
                         !.enemiesKilledThisWave = 0,
                         !.enemiesLeakedThisWave = 0,
                         !.spawnQueue = q,
                         !.spawnQueueIndex = 0,
                         !.waveElapsedTime =
                            IF scaled.startDelay > 0
                              THEN 0 - scaled.startDelay ELSE 0],
                      Event("wave_started", m1.currentWaveIndex + 1,
                            getWaveEnemyCount(scaled)))

\* beginWave(); q is the queue buildSpawnQueue leaves (its shuffle's outcome)
beginWave(m, q) ==
  LET m1 == [m EXCEPT !.currentWaveIndex = @ + 1]
  IN  IF ~endlessMode /\ m1.currentWaveIndex >= Len(waves)
        THEN completeAllWaves(m1)
        ELSE LET m2 == transitionTo(m1, SPAWNING)
                 scaled == scaledWave(m2.currentWaveIndex)
                 m3 == [m2 EXCEPT !.enemiesSpawnedThisWave = 0,
                                  !.enemiesKilledThisWave = 0,
                                  !.enemiesLeakedThisWave = 0,
                                  !.spawnQueue = q,
                                  !.spawnQueueIndex = 0,
                                  !.waveElapsedTime =
                                     IF scaled.startDelay > 0
                                       THEN 0 - scaled.startDelay ELSE 0]
             IN  emit(m3, Event("wave_started", m3.currentWaveIndex + 1,
                                getWaveEnemyCount(scaled)))

\* start()
start(m) ==
  IF isActive(m) THEN m
  ELSE LET m1 == transitionTo(m, COUNTDOWN)
           m2 == [m1 EXCEPT !.isPaused = FALSE, !.currentWaveIndex = -1]
       IN  startCountdown(resetStatistics(m2), timeBetweenWaves)

\* a stop that drops the queue and the pause flag and keeps the state
stop_NoTransition(m) ==
  [m EXCEPT !.isPaused = FALSE, !.spawnQueue = <<>>]

\* stop()
stop(m) ==
  [transitionTo(m, IDLE) EXCEPT !.isPaused = FALSE, !.spawnQueue = <<>>]

\* pause()
pause(m) == [m EXCEPT !.isPaused = TRUE]

\* resume()
resume(m) == [m EXCEPT !.isPaused = FALSE]

\* startNextWave()
startNextWave(m, q) ==
  IF ~isActive(m) \/ m.isPaused THEN m
  ELSE LET m1 == assignIsCountingDown(m)
       IN  IF m1.threw THEN m1
           ELSE beginWave([m1 EXCEPT !.countdownTime = 0,
                                     !.countdownElapsed = 0], q)

\* callNextWaveEarly()
callNextWaveEarly(m, q) ==
  IF isCountingDown(m) THEN startNextWave(m, q) ELSE m

\* skipCurrentWave()
skipCurrentWave(m) ==
  IF ~isActive(m) \/ m.currentWaveIndex < 0 THEN m
  ELSE completeCurrentWave([m EXCEPT !.spawnQueue = <<>>,
                                     !.spawnQueueIndex = 0])

\* updateCountdown that ticks on every call (level-triggered)
updateCountdown_TickAlways(m, deltaMs, q) ==
  LET m1 == [m EXCEPT !.countdownElapsed = @ + deltaMs]
      ticksSinceStart == m1.countdownElapsed \div countdownTickInterval
      m2 == emit([m1 EXCEPT !.lastCountdownTick = ticksSinceStart],
                 Event("countdown_tick", m1.currentWaveIndex + 2,
                       Max(0, m1.countdownTime - m1.countdownElapsed)))
  IN  IF m2.countdownElapsed >= m2.countdownTime
        THEN LET m3 == assignIsCountingDown(m2)
             IN  IF m3.threw THEN m3 ELSE beginWave(m3, q)
        ELSE m2

\* updateCountdown(deltaMs)
updateCountdown(m, deltaMs, q) ==
  LET m1 == [m EXCEPT !.countdownElapsed = @ + deltaMs]
      ticksSinceStart == m1.countdownElapsed \div countdownTickInterval
      m2 == IF ticksSinceStart > m1.lastCountdownTick
              THEN emit([m1 EXCEPT !.lastCountdownTick = ticksSinceStart],
                        Event("countdown_tick", m1.currentWaveIndex + 2,
                              Max(0, m1.countdownTime - m1.countdownElapsed)))
              ELSE m1
  IN  IF m2.countdownElapsed >= m2.countdownTime
        THEN LET m3 == assignIsCountingDown(m2)
             IN  IF m3.threw THEN m3 ELSE beginWave(m3, q)
        ELSE m2

\* spawnEnemy(type)
spawnEnemy(m, type) ==
  LET m1 == [m EXCEPT !.enemiesSpawnedThisWave = @ + 1]
  IN  emit(m1, [Event("enemy_spawned", m1.currentWaveIndex + 1,
                      m1.enemiesSpawnedThisWave) EXCEPT !.enemyType = type])

\* a single-shot spawn: at most one due entry per call
SpawnLoop_SingleShot(m) ==
  IF m.spawnQueueIndex < Len(m.spawnQueue)
    THEN LET entry == m.spawnQueue[m.spawnQueueIndex + 1]
         IN  IF m.waveElapsedTime >= entry.spawnTime
               THEN [spawnEnemy(m, entry.type) EXCEPT !.spawnQueueIndex = @ + 1]
               ELSE m
    ELSE m

\* the while loop of updateWaveSpawning
RECURSIVE SpawnLoop(_)
SpawnLoop(m) ==
  IF m.spawnQueueIndex < Len(m.spawnQueue)
    THEN LET entry == m.spawnQueue[m.spawnQueueIndex + 1]
         IN  IF m.waveElapsedTime >= entry.spawnTime
               THEN SpawnLoop([spawnEnemy(m, entry.type)
                                 EXCEPT !.spawnQueueIndex = @ + 1])
               ELSE m
    ELSE m

\* updateWaveSpawning(deltaMs)
updateWaveSpawning(m, deltaMs) ==
  LET m1 == [m EXCEPT !.waveElapsedTime = @ + deltaMs]
  IN  IF m1.waveElapsedTime < 0 THEN m1 ELSE SpawnLoop(m1)

\* checkWaveCompletion without the check of the active enemies
checkWaveCompletion_NoActiveCheck(m, active) ==
  LET allSpawned == m.spawnQueueIndex >= Len(m.spawnQueue)
      m1 == IF m.state = SPAWNING THEN transitionTo(m, WAITING_FOR_CLEAR) ELSE m
      totalHandled == m1.enemiesKilledThisWave + m1.enemiesLeakedThisWave
      allHandled == totalHandled >= m1.enemiesSpawnedThisWave
  IN  IF ~allSpawned THEN m
      ELSE IF allHandled THEN completeCurrentWave(m1)
      ELSE m1

\* checkWaveCompletion(); active is enemyManager.getActiveEnemyCount()
checkWaveCompletion(m, active) ==
  LET allSpawned == m.spawnQueueIndex >= Len(m.spawnQueue)
      m1 == IF m.state = SPAWNING THEN transitionTo(m, WAITING_FOR_CLEAR) ELSE m
      totalHandled == m1.enemiesKilledThisWave + m1.enemiesLeakedThisWave
      allHandled == totalHandled >= m1.enemiesSpawnedThisWave
  IN  IF ~allSpawned THEN m
      ELSE IF allHandled /\ active = 0 THEN completeCurrentWave(m1)
      ELSE m1

\* the number of enemyManager.spawnEnemy calls of the running operation
SpawnCalls(m) ==
  Cardinality({k \in 1..Len(m.emitted) : m.emitted[k].type = "enemy_spawned"})

\* update without the check of the pause flag
update_IgnorePause(m, deltaMs, q, active) ==
  IF ~isActive(m) THEN m
  ELSE IF isCountingDown(m) THEN updateCountdown(m, deltaMs, q)
  ELSE IF m.currentWaveIndex >= 0
         THEN LET m1 == updateWaveSpawning(m, deltaMs)
              IN  checkWaveCompletion(m1, active + SpawnCalls(m1))
         ELSE m

\* update(deltaTime), deltaMs = deltaTime * 1000; active is the enemy
\* manager's count when update is entered, each spawnEnemy call adds one
update(m, deltaMs, q, active) ==
  IF ~isActive(m) \/ m.isPaused THEN m
  ELSE IF isCountingDown(m) THEN updateCountdown(m, deltaMs, q)
  ELSE IF m.currentWaveIndex >= 0
         THEN LET m1 == updateWaveSpawning(m, deltaMs)
              IN  checkWaveCompletion(m1, active + SpawnCalls(m1))
         ELSE m

\* onEnemyKilled()
onEnemyKilled(m) ==
  IF isActive(m) /\ m.currentWaveIndex >= 0
    THEN [m EXCEPT !.enemiesKilledThisWave = @ + 1]
    ELSE m

\* onEnemyReachedEnd()
onEnemyReachedEnd(m) ==
  IF isActive(m) /\ m.currentWaveIndex >= 0
    THEN [m EXCEPT !.enemiesLeakedThisWave = @ + 1]
    ELSE m

\* getTotalStats()
getTotalStats(m) ==
  [totalKills |-> m.totalEnemiesKilled,
   totalLeaked |-> m.totalEnemiesLeaked,
   wavesCompleted |-> m.currentWaveIndex]

\* setWaves(waves): the instance after the call, which throws for an empty
\* array and only warns about waves without enemies and counts <= 0
setWaves(m, newWaves) ==
  IF Len(newWaves) = 0 THEN [m EXCEPT !.threw = TRUE] ELSE m

\* this.waves after setWaves(newWaves)
setWaves_waves(newWaves) == IF Len(newWaves) = 0 THEN waves ELSE newWaves

(***************************************************************************)
(* The WaveManager under its public operations and its enemy manager       *)
(***************************************************************************)
Wave(n, startDelay, enemies) ==
  [waveNumber |-> n, startDelay |-> startDelay, enemies |-> enemies]

Group(type, count, spawnDelay) ==
  [type |-> type, count |-> count, spawnDelay |-> spawnDelay]

\* the wave lists the manager is constructed with
OneWave == <<Wave(1, 1000, <<Group("fast", 2, 1000)>>)>>
TwoWaves ==
  <<Wave(1, 0, <<Group("fast", 1, 0)>>),
    Wave(2, 1000, <<Group("fast", 1, 500), Group("tank", 1, 1000)>>)>>
WaveLists == {OneWave, TwoWaves}

\* deltaTime * 1000 of one frame: one tick interval, and several
DeltaMs == {1000, 3000}

\* deltaTime * 1000 of one frame of a countdown: also less than a tick interval
CountdownDeltaMs == {500, 1000, 3000}

\* the instance right after the constructor
NewWaveManager ==
  [state |-> IDLE,
   currentWaveIndex |-> -1,
   isPaused |-> FALSE,
   spawnQueue |-> <<>>,
   spawnQueueIndex |-> 0,
   waveElapsedTime |-> 0,
   countdownTime |-> 0,
   countdownElapsed |-> 0,
   lastCountdownTick |-> 0,
   enemiesSpawnedThisWave |-> 0,
   enemiesKilledThisWave |-> 0,
   enemiesLeakedThisWave |-> 0,
   totalEnemiesKilled |-> 0,
   totalEnemiesLeaked |-> 0,
   emitted |-> <<>>,
   requested |-> <<>>,
   threw |-> FALSE]

\* an operation starts with nothing emitted and nothing thrown
Begin(m) == [m EXCEPT !.emitted = <<>>, !.requested = <<>>, !.threw = FALSE]

QIdle ==
  /\ qEnemies = <<>>
  /\ qMode = "none"
  /\ qRaw = <<>>
  /\ qQueue = <<>>
  /\ CombatIdle
  /\ AuxIdle

Init ==
  /\ strict \in BOOLEAN
  /\ waves \in WaveLists
  /\ difficulty = 100
  /\ autoStartWaves \in BOOLEAN
  /\ endlessMode \in BOOLEAN
  /\ spawnMode \in SpawnMode
  /\ spawnMode # SEQUENTIAL => waves = TwoWaves /\ autoStartWaves /\ ~endlessMode
  /\ wm = NewWaveManager
  /\ destroyed = FALSE
  /\ calls = 0
  /\ activeEnemies = 0
  /\ unresolved = 0
  /\ QIdle

\* the model stops advancing time and waves at its bounds
WithinBounds ==
  /\ wm.state = COUNTDOWN => wm.countdownElapsed < MaxCountdownElapsed
  /\ wm.state \in {SPAWNING, WAITING_FOR_CLEAR} => wm.waveElapsedTime < MaxWaveElapsed
  /\ wm.currentWaveIndex < MaxWaveIndex
  /\ activeEnemies <= MaxActive
  /\ unresolved <= MaxActive
  /\ wm.totalEnemiesKilled + wm.totalEnemiesLeaked <= MaxTotal

\* the instance is replaced by the one the operation leaves; nothing is
\* called on an instance after destroy()
Call(m) ==
  /\ ~destroyed
  /\ wm' = m
  /\ UNCHANGED <<cfgVars, qVars, combatVars, auxVars>>

\* an intervention of the host, counted against MaxCalls
Intervene(m) ==
  /\ calls < MaxCalls
  /\ calls' = calls + 1
  /\ Call(m)

Start ==
  /\ Call(start(Begin(wm)))
  /\ UNCHANGED <<destroyed, calls, activeEnemies, unresolved>>

Stop ==
  /\ Intervene(stop(Begin(wm)))
  /\ UNCHANGED <<destroyed, activeEnemies, unresolved>>

Pause ==
  /\ Intervene(pause(Begin(wm)))
  /\ UNCHANGED <<destroyed, activeEnemies, unresolved>>

Resume ==
  /\ Call(resume(Begin(wm)))
  /\ UNCHANGED <<destroyed, calls, activeEnemies, unresolved>>

StartNextWave ==
  /\ WithinBounds
  /\ \E q \in QueuesFor(wm.currentWaveIndex + 1) :
       Intervene(startNextWave(Begin(wm), q))
  /\ UNCHANGED <<destroyed, activeEnemies, unresolved>>

CallNextWaveEarly ==
  /\ WithinBounds
  /\ \E q \in QueuesFor(wm.currentWaveIndex + 1) :
       Intervene(callNextWaveEarly(Begin(wm), q))
  /\ UNCHANGED <<destroyed, activeEnemies, unresolved>>

SkipCurrentWave ==
  /\ WithinBounds
  /\ Intervene(skipCurrentWave(Begin(wm)))
  /\ UNCHANGED <<destroyed, activeEnemies, unresolved>>

\* one frame of the host loop: update(deltaTime); the enemies it spawns are
\* active in the enemy manager and not yet reported
Frame(deltas) ==
  /\ \E deltaMs \in deltas, q \in QueuesFor(wm.currentWaveIndex + 1) :
       Call(update(Begin(wm), deltaMs, q, activeEnemies))
  /\ activeEnemies' = activeEnemies + SpawnCalls(wm')
  /\ unresolved' = unresolved + SpawnCalls(wm')
  /\ UNCHANGED <<destroyed, calls>>

Update ==
  /\ WithinBounds
  /\ Frame(DeltaMs)

\* destroy(): stop(), unsubscribe from the enemy manager, drop the listeners
Destroy ==
  /\ Call(stop(Begin(wm)))
  /\ destroyed' = TRUE
  /\ UNCHANGED <<calls, activeEnemies, unresolved>>

\* the enemy manager reports a kill: 'enemy_killed' -> boundOnEnemyKilled
EnemyKilled ==
  /\ unresolved > 0
  /\ unresolved' = unresolved - 1
  /\ Call(onEnemyKilled(Begin(wm)))
  /\ UNCHANGED <<destroyed, calls, activeEnemies>>

\* the enemy manager reports a leak: 'enemy_reached_end' -> boundOnEnemyReachedEnd
EnemyReachedEnd ==
  /\ unresolved > 0
  /\ unresolved' = unresolved - 1
  /\ Call(onEnemyReachedEnd(Begin(wm)))
  /\ UNCHANGED <<destroyed, calls, activeEnemies>>

\* the enemy manager drops an enemy from its active list
EnemyRemoved ==
  /\ activeEnemies > 0
  /\ activeEnemies' = activeEnemies - 1
  /\ Call(Begin(wm))
  /\ UNCHANGED <<destroyed, calls, unresolved>>

Next ==
  \/ Start
  \/ Stop
  \/ Pause
  \/ Resume
  \/ StartNextWave
  \/ CallNextWaveEarly
  \/ SkipCurrentWave
  \/ Update
  \/ Destroy
  \/ EnemyKilled
  \/ EnemyReachedEnd
  \/ EnemyRemoved

Spec == Init /\ [][Next]_vars

(***************************************************************************)
(* A started manager under the host loop alone: frames keep coming, and    *)
(* the enemy manager eventually reports and drops every enemy              *)
(***************************************************************************)
LiveInit ==
  /\ strict \in BOOLEAN
  /\ waves \in WaveLists
  /\ difficulty = 100
  /\ autoStartWaves = TRUE
  /\ endlessMode = FALSE
  /\ spawnMode \in SpawnMode
  /\ spawnMode # SEQUENTIAL => waves = TwoWaves
  /\ wm = NewWaveManager
  /\ destroyed = FALSE
  /\ calls = 0
  /\ activeEnemies = 0
  /\ unresolved = 0
  /\ QIdle

\* the one start() of the run
LiveStart ==
  /\ wm.state = IDLE
  /\ Start

\* the number of enemies of all the waves
RECURSIVE AllWavesEnemyCount(_)
AllWavesEnemyCount(i) ==
  IF i > Len(waves) THEN 0
  ELSE getWaveEnemyCount(waves[i]) + AllWavesEnemyCount(i + 1)

\* The counters of an instance that is updated for ever grow without limit
\* once nothing compares them any more: the totals past the enemies of all
\* the waves, the wave clock once the queue is drained, the countdown clock
\* past the countdown time.  Such values are kept at the limit, the tick
\* counter in step with the countdown clock, so that a run that goes on for
\* ever in one state of the machine is a cycle.
Saturated(m) ==
  LET drained == m.spawnQueueIndex >= Len(m.spawnQueue)
      expired == /\ m.countdownElapsed >= m.countdownTime
                 /\ m.countdownElapsed >= MaxCountdownElapsed
  IN  [m EXCEPT
        !.totalEnemiesKilled = IF @ > AllWavesEnemyCount(1)
                                 THEN AllWavesEnemyCount(1) ELSE @,
        !.totalEnemiesLeaked = IF @ > AllWavesEnemyCount(1)
                                 THEN AllWavesEnemyCount(1) ELSE @,
        !.waveElapsedTime = IF drained /\ @ > MaxWaveElapsed
                              THEN MaxWaveElapsed ELSE @,
        !.countdownElapsed = IF expired THEN MaxCountdownElapsed ELSE @,
        !.lastCountdownTick = IF expired
                                THEN MaxCountdownElapsed \div countdownTickInterval
                                ELSE @]

\* frames keep coming for ever: update(deltaTime) of the host loop
LiveUpdate ==
  /\ \E deltaMs \in DeltaMs, q \in QueuesFor(wm.currentWaveIndex + 1) :
       Call(Saturated(update(Begin(wm), deltaMs, q, activeEnemies)))
  /\ activeEnemies' = activeEnemies + SpawnCalls(wm')
  /\ unresolved' = unresolved + SpawnCalls(wm')
  /\ UNCHANGED <<destroyed, calls>>

LiveNext ==
  \/ LiveStart
  \/ LiveUpdate
  \/ EnemyKilled
  \/ EnemyReachedEnd
  \/ EnemyRemoved

LiveSpec ==
  /\ LiveInit
  /\ [][LiveNext]_vars
  /\ WF_vars(LiveStart)
  /\ WF_vars(LiveUpdate)
  /\ WF_vars(EnemyKilled \/ EnemyReachedEnd)
  /\ WF_vars(EnemyRemoved)

(***************************************************************************)
(* The countdown under frames shorter and longer than a tick interval      *)
(***************************************************************************)
CountdownInit ==
  /\ strict \in BOOLEAN
  /\ waves = OneWave
  /\ difficulty = 100
  /\ autoStartWaves = TRUE
  /\ endlessMode = FALSE
  /\ spawnMode = SEQUENTIAL
  /\ wm = NewWaveManager
  /\ destroyed = FALSE
  /\ calls = 0
  /\ activeEnemies = 0
  /\ unresolved = 0
  /\ QIdle

\* update(deltaTime) while the manager counts down
CountdownUpdate ==
  /\ WithinBounds
  /\ wm.state = COUNTDOWN
  /\ Frame(CountdownDeltaMs)

CountdownNext ==
  \/ Start
  \/ Stop
  \/ Pause
  \/ Resume
  \/ CallNextWaveEarly
  \/ CountdownUpdate

CountdownSpec == CountdownInit /\ [][CountdownNext]_vars

(***************************************************************************)
(* The spawn timeline of one wave: a start delay, frames shorter and       *)
(* longer than the spawn delays                                            *)
(***************************************************************************)
\* five FAST enemies one second apart after a start delay of two seconds
FiveFast == <<Wave(1, 2000, <<Group("fast", 5, 1000)>>)>>

\* two groups with different delays after a start delay of one second
MixedWave == <<Wave(1, 1000, <<Group("fast", 2, 500), Group("tank", 1, 1000)>>)>>

\* deltaTime * 1000 of one frame of the spawn timeline
SpawnDeltaMs == {500, 1000, 1500, 2500, 6000}

SpawnInit ==
  /\ strict \in BOOLEAN
  /\ waves \in {FiveFast, MixedWave}
  /\ difficulty = 100
  /\ autoStartWaves = TRUE
  /\ endlessMode = FALSE
  /\ spawnMode \in SpawnMode
  /\ waves = FiveFast => spawnMode = SEQUENTIAL
  /\ wm = NewWaveManager
  /\ destroyed = FALSE
  /\ calls = 0
  /\ activeEnemies = 0
  /\ unresolved = 0
  /\ QIdle

\* update(deltaTime) of the host loop
SpawnUpdate ==
  /\ wm.state = COUNTDOWN => wm.countdownElapsed < MaxCountdownElapsed
  /\ wm.state \in {SPAWNING, WAITING_FOR_CLEAR} => wm.waveElapsedTime < MaxSpawnElapsed
  /\ Frame(SpawnDeltaMs)

SpawnNext ==
  \/ Start
  \/ SpawnUpdate
  \/ EnemyKilled
  \/ EnemyReachedEnd
  \/ EnemyRemoved

SpawnSpec == SpawnInit /\ [][SpawnNext]_vars

(***************************************************************************)
(* The queue builders applied to bounded waves                             *)
(***************************************************************************)
\* spawn delays drawn for a group: negative, zero and positive
QDelays == {-500, 0, 1000}

\* enemy types drawn for a group
QTypes == {"fast", "tank"}

QGroups ==
  [type : QTypes, count : (-1)..MaxCount, spawnDelay : QDelays]

\* the number of entries the groups put into the queue
RECURSIVE QueueSize(_, _)
QueueSize(enemies, g) ==
  IF g > Len(enemies) THEN 0
  ELSE Max(0, enemies[g].count) + QueueSize(enemies, g + 1)

QWaves ==
  {enemies \in UNION {[1..n -> QGroups] : n \in 0..MaxGroups} :
     QueueSize(enemies, 1) <= MaxPool}

\* the WaveManager is not running while the builders are applied
WmIdle ==
  /\ strict = FALSE
  /\ waves = OneWave
  /\ difficulty = 100
  /\ autoStartWaves = TRUE
  /\ endlessMode = FALSE
  /\ spawnMode = SEQUENTIAL
  /\ wm = NewWaveManager
  /\ destroyed = FALSE
  /\ calls = 0
  /\ activeEnemies = 0
  /\ unresolved = 0

QInit ==
  /\ qEnemies \in QWaves
  /\ qMode = "none"
  /\ qRaw = <<>>
  /\ qQueue = <<>>
  /\ WmIdle
  /\ CombatIdle
  /\ AuxIdle

\* buildSpawnQueue(wave) under this.spawnMode = mode
QBuild(mode) ==
  /\ qMode = "none"
  /\ qMode' = mode
  /\ \E raw \in UnsortedQueues(qEnemies, mode) :
       /\ qRaw' = raw
       /\ qQueue' = SortBySpawnTime(raw)
  /\ UNCHANGED <<qEnemies, cfgVars, wmVars, combatVars, auxVars>>

QBuildSequential == QBuild(SEQUENTIAL)

QBuildInterleaved == QBuild(INTERLEAVED)

QBuildRandom == QBuild(RANDOM)

QNext ==
  \/ QBuildSequential
  \/ QBuildInterleaved
  \/ QBuildRandom

QueueSpec == QInit /\ [][QNext]_vars

(***************************************************************************)
(* calculateDamage applied to bounded inputs                               *)
(***************************************************************************)
\* the amounts drawn, num/den: tenths up to 3, and integers
CalcAmounts ==
  {<<n, 10>> : n \in 0..30} \cup {<<n, 1>> : n \in (0..25) \cup {100}}

\* the armors drawn
CalcArmors == {0, 10, 50, 100, 180, 200, 500, 900, 999999}

\* the amount num/den as the double the code is given
CalcAmount(c) == IF c.den = 1 THEN DFromInt(c.num) ELSE Literal(c.num, c.den)

CalcInit ==
  /\ calc \in {[NoCalc EXCEPT !.num = a[1], !.den = a[2], !.armor = r] :
                 a \in CalcAmounts, r \in CalcArmors}
  /\ cs = NewCombatSystem
  /\ WmIdle
  /\ qEnemies = <<>>
  /\ qMode = "none"
  /\ qRaw = <<>>
  /\ qQueue = <<>>
  /\ AuxIdle

\* calculateDamage({amount, type}, {armor}) for the three damage types
Calculate ==
  /\ ~calc.done
  /\ calc' =
       [calc EXCEPT
          !.done = TRUE,
          !.physical = calculateDamage([amount |-> CalcAmount(calc), type |-> PHYSICAL],
                                       [armor |-> calc.armor]),
          !.magical = calculateDamage([amount |-> CalcAmount(calc), type |-> MAGICAL],
                                      [armor |-> calc.armor]),
          !.trueDamage = calculateDamage([amount |-> CalcAmount(calc),
                                          type |-> TRUE_DAMAGE],
                                         [armor |-> calc.armor])]
  /\ UNCHANGED <<cfgVars, wmVars, qVars, cs, auxVars>>

CalcNext == Calculate

CalcSpec == CalcInit /\ [][CalcNext]_vars

(***************************************************************************)
(* The combat loop: targets on the line of fire, projectiles flying from   *)
(* (0, 0) towards (48, 0)                                                  *)
(***************************************************************************)
\* the targets registered, in order: what the n-th one can be
TargetOptions ==
  << {[kind |-> "basic", x |-> 24, health |-> h] : h \in {10, 100}},
     {[kind |-> "tank", x |-> x, health |-> 300] : x \in {24, 48, 88}} >>

\* a magic projectile of damage 100
MagicHundred == [PROJECTILE_CONFIGS[MAGIC] EXCEPT !.damage = 100]

\* the projectiles spawned, in order: what the n-th one can be
ProjectileOptions ==
  << {PROJECTILE_CONFIGS[BULLET], PROJECTILE_CONFIGS[ARROW], PROJECTILE_CONFIGS[MAGIC]},
     {PROJECTILE_CONFIGS[BULLET], MagicHundred} >>

StartPosition == [x |-> 0, y |-> 0]
TargetPosition == [x |-> 48, y |-> 0]

\* an operation starts with an empty log
ClearLog(c) == [c EXCEPT !.log = <<>>]

CombatInit ==
  /\ cs = NewCombatSystem
  /\ calc = NoCalc
  /\ WmIdle
  /\ qEnemies = <<>>
  /\ qMode = "none"
  /\ qRaw = <<>>
  /\ qQueue = <<>>
  /\ AuxIdle

\* combatSystem.registerTarget(enemy), before the first shot
RegisterTarget ==
  /\ Len(cs.targets) < Len(TargetOptions)
  /\ cs.spawned = 0
  /\ \E o \in TargetOptions[Len(cs.targets) + 1] :
       cs' = registerTarget(ClearLog(cs),
                            NewEnemy(Len(cs.targets) + 1, o.kind, o.x, o.health))
  /\ UNCHANGED <<cfgVars, wmVars, qVars, calc, auxVars>>

\* projectileManager.spawnFromConfig(options), the shots of one volley
SpawnProjectile ==
  /\ Len(cs.targets) = Len(TargetOptions)
  /\ cs.spawned < Len(ProjectileOptions)
  /\ Len(cs.projectiles) = cs.spawned
  /\ \A i \in 1..Len(cs.projectiles) : cs.projectiles[i].distanceTraveled = 0
  /\ \E config \in ProjectileOptions[cs.spawned + 1] :
       cs' = spawnFromConfig(ClearLog(cs), StartPosition, TargetPosition, config)
  /\ UNCHANGED <<cfgVars, wmVars, qVars, calc, auxVars>>

\* projectileManager.update(1): one frame of flight
ManagerUpdate ==
  /\ Len(cs.projectiles) > 0
  /\ cs' = ProjectileManager_update(ClearLog(cs), 1)
  /\ UNCHANGED <<cfgVars, wmVars, qVars, calc, auxVars>>

\* combatSystem.update(deltaTime)
CombatUpdate ==
  /\ cs' = CombatSystem_update(ClearLog(cs))
  /\ UNCHANGED <<cfgVars, wmVars, qVars, calc, auxVars>>

CombatNext ==
  \/ RegisterTarget
  \/ SpawnProjectile
  \/ ManagerUpdate
  \/ CombatUpdate

CombatSpec == CombatInit /\ [][CombatNext]_vars

(***************************************************************************)
(* The SpatialGrid alone: a grid of the size the tests construct, two      *)
(* entities, and boxes inside the world, across cell borders and entirely  *)
(* outside the world.                                                      *)
(***************************************************************************)
GridInit ==
  /\ WmIdle
  /\ QIdle

GridRest == <<cfgVars, wmVars, qVars, combatVars, poolVars, gameVars>>

GridInsert ==
  /\ \E entity \in Entities, bounds \in GridBoxes :
       /\ grid' = SpatialGrid_insert(grid, entity, bounds)
       /\ gridCall' = GridCall("insert", entity, bounds, Undefined, <<>>)
  /\ UNCHANGED GridRest

GridRemove ==
  /\ \E entity \in Entities :
       /\ grid' = SpatialGrid_remove(grid, entity)
       /\ gridCall' = GridCall("remove", entity, Box(0, 0, 0, 0), Undefined, <<>>)
  /\ UNCHANGED GridRest

GridUpdate ==
  /\ \E entity \in Entities, bounds \in GridBoxes :
       /\ grid' = SpatialGrid_update(grid, entity, bounds)
       /\ gridCall' = GridCall("update", entity, bounds, Undefined, <<>>)
  /\ UNCHANGED GridRest

GridQuery ==
  /\ \E bounds \in QueryBoxes, exclude \in Entities \cup {Undefined} :
       gridCall' = GridCall("query", Undefined, bounds, exclude,
                            SpatialGrid_query(grid, bounds, exclude))
  /\ UNCHANGED <<grid, GridRest>>

GridClear ==
  /\ grid' = SpatialGrid_clear(grid)
  /\ gridCall' = GridCall("clear", Undefined, Box(0, 0, 0, 0), Undefined, <<>>)
  /\ UNCHANGED GridRest

GridNext ==
  \/ GridInsert
  \/ GridRemove
  \/ GridUpdate
  \/ GridQuery
  \/ GridClear

GridSpec == GridInit /\ [][GridNext]_vars

(***************************************************************************)
(* The ObjectPool alone: every initialSize and maxSize up to the bounds,   *)
(* releases of active, released, never made and foreign objects.           *)
(***************************************************************************)
PoolCall(op, obj) ==
  [op |-> op, obj |-> obj, active |-> obj \in Members(pool.activeObjects)]

PoolInit ==
  /\ pool \in {NewObjectPool(initialSize, maxSize) :
                 initialSize \in 0..MaxInitialSize, maxSize \in 0..MaxMaxSize}
  /\ poolCall = [op |-> "none", obj |-> Foreign, active |-> FALSE]
  /\ GridIdle
  /\ GameIdle
  /\ WmIdle
  /\ qEnemies = <<>>
  /\ qMode = "none"
  /\ qRaw = <<>>
  /\ qQueue = <<>>
  /\ CombatIdle

PoolRest == <<cfgVars, wmVars, qVars, combatVars, gridVars, gameVars>>

PoolAcquire ==
  /\ Len(pool.pool) > 0 \/ pool.created < MaxObjects
  /\ pool' = acquire(PoolBegin(pool))
  /\ poolCall' = PoolCall("acquire", Foreign)
  /\ UNCHANGED PoolRest

PoolRelease ==
  /\ \E obj \in {Foreign} \cup 1..pool.created :
       /\ pool' = release(PoolBegin(pool), obj)
       /\ poolCall' = PoolCall("release", obj)
  /\ UNCHANGED PoolRest

PoolReleaseAll ==
  /\ pool' = releaseAll(PoolBegin(pool))
  /\ poolCall' = PoolCall("releaseAll", Foreign)
  /\ UNCHANGED PoolRest

PoolPrewarm ==
  /\ \E targetCount \in 0..MaxObjects :
       /\ prewarm(PoolBegin(pool), targetCount).created <= MaxObjects
       /\ pool' = prewarm(PoolBegin(pool), targetCount)
       /\ poolCall' = PoolCall("prewarm", Foreign)
  /\ UNCHANGED PoolRest

PoolClear ==
  /\ pool' = ObjectPool_clear(PoolBegin(pool))
  /\ poolCall' = PoolCall("clear", Foreign)
  /\ UNCHANGED PoolRest

PoolNext ==
  \/ PoolAcquire
  \/ PoolRelease
  \/ PoolReleaseAll
  \/ PoolPrewarm
  \/ PoolClear

PoolSpec == PoolInit /\ [][PoolNext]_vars

(***************************************************************************)
(* The GameStateManager alone: a game of InitialLives lives and            *)
(* GameTotalWaves waves, every public method that can change the state     *)
(* called in every state.                                                  *)
(***************************************************************************)
GameInit ==
  /\ game = NewGameStateManager(InitialLives, GameTotalWaves)
  /\ gameCall = [op |-> "none", from |-> LOADING]
  /\ GridIdle
  /\ PoolIdle
  /\ WmIdle
  /\ qEnemies = <<>>
  /\ qMode = "none"
  /\ qRaw = <<>>
  /\ qQueue = <<>>
  /\ CombatIdle

\* the instance is replaced by the one the method leaves
GameDo(op, m) ==
  /\ game' = m
  /\ gameCall' = [op |-> op, from |-> game.currentState]
  /\ UNCHANGED <<cfgVars, wmVars, qVars, combatVars, gridVars, poolVars>>

SetState == \E newState \in GameState : GameDo("setState", setState(GameBegin(game), newState))

TransitionToMenu == GameDo("transitionToMenu", transitionToMenu(GameBegin(game)))

StartGame == GameDo("startGame", startGame(GameBegin(game)))

PauseGame == GameDo("pauseGame", pauseGame(GameBegin(game)))

ResumeGame == GameDo("resumeGame", resumeGame(GameBegin(game)))

TriggerGameOver == GameDo("triggerGameOver", triggerGameOver(GameBegin(game)))

TriggerVictory == GameDo("triggerVictory", triggerVictory(GameBegin(game)))

LoseLife ==
  \E amount \in 1..InitialLives : GameDo("loseLife", loseLife(GameBegin(game), amount))

AdvanceWave ==
  /\ game.currentWave < MaxCurrentWave
  /\ GameDo("advanceWave", advanceWave(GameBegin(game)))

Restart == GameDo("restart", restart(GameBegin(game)))

Dispose == GameDo("dispose", dispose(GameBegin(game)))

GameNext ==
  \/ SetState
  \/ TransitionToMenu
  \/ StartGame
  \/ PauseGame
  \/ ResumeGame
  \/ TriggerGameOver
  \/ TriggerVictory
  \/ LoseLife
  \/ AdvanceWave
  \/ Restart
  \/ Dispose

GameSpec == GameInit /\ [][GameNext]_vars

(***************************************************************************)
(* Degraded waves: wave lists with a wave without enemy groups, with       *)
(* groups of count 0 and less, and with such a wave behind a wave that     *)
(* spawns an enemy, in every spawn mode and at two difficulties.           *)
(***************************************************************************)
NoGroups == <<Wave(1, 2000, <<>>)>>
NoCounts == <<Wave(1, 0, <<Group("fast", 0, 1000), Group("tank", -1, 500)>>)>>
OneThenNone ==
  <<Wave(1, 0, <<Group("fast", 1, 0)>>), Wave(2, 2000, <<Group("tank", 0, 1000)>>)>>
DegradedWaveLists == {NoGroups, NoCounts, OneThenNone}

\* DIFFICULTY_PRESETS: countMultiplier 1.0 and 1.5, in percent
DegradedDifficulties == {100, 150}

DegradedInit ==
  /\ strict \in BOOLEAN
  /\ waves \in DegradedWaveLists
  /\ difficulty \in DegradedDifficulties
  /\ autoStartWaves = TRUE
  /\ endlessMode = FALSE
  /\ spawnMode \in SpawnMode
  /\ wm = NewWaveManager
  /\ destroyed = FALSE
  /\ calls = 0
  /\ activeEnemies = 0
  /\ unresolved = 0
  /\ QIdle

\* setWaves(newWaves) between two runs
SetWavesTo(newWaves) ==
  /\ ~destroyed
  /\ ~isActive(wm)
  /\ calls < MaxCalls
  /\ calls' = calls + 1
  /\ wm' = setWaves(Begin(wm), newWaves)
  /\ waves' = setWaves_waves(newWaves)
  /\ UNCHANGED <<strict, difficulty, autoStartWaves, endlessMode, spawnMode,
                 destroyed, activeEnemies, unresolved, qVars, combatVars, auxVars>>

SetWaves == \E newWaves \in DegradedWaveLists \cup {<<>>} : SetWavesTo(newWaves)

DegradedNext ==
  \/ SetWaves
  \/ Start
  \/ Stop
  \/ Pause
  \/ Resume
  \/ StartNextWave
  \/ CallNextWaveEarly
  \/ SkipCurrentWave
  \/ Update
  \/ EnemyKilled
  \/ EnemyReachedEnd
  \/ EnemyRemoved

DegradedSpec == DegradedInit /\ [][DegradedNext]_vars

(***************************************************************************)
(* Properties                                                              *)
(***************************************************************************)
\* the running operation passed an event of this type to emit()
Emitted(m, type) == \E k \in 1..Len(m.emitted) : m.emitted[k].type = type

\* the three conditions of a complete wave, on the instance m and the enemy
\* manager's active count
QueueDrained(m) == m.spawnQueueIndex >= Len(m.spawnQueue)
AllHandled(m) ==
  m.enemiesKilledThisWave + m.enemiesLeakedThisWave >= m.enemiesSpawnedThisWave

\* C1: an update() that emits wave_completed ends with the spawn queue
\* drained, killed + leaked >= spawned and no active enemy in the enemy
\* manager; in particular update() never completes a wave while
\* getActiveEnemyCount() > 0.
C1_CompletionNeedsClear ==
  [][(Update /\ Emitted(wm', "wave_completed"))
       => (/\ QueueDrained(wm')
           /\ AllHandled(wm')
           /\ activeEnemies' = 0)]_vars

\* C1 witness: a wave with spawned enemies has just been completed (the queue
\* is drained and not cleared, so the completion came from update())
C1_Witness ==
  /\ Emitted(wm, "wave_completed")
  /\ wm.enemiesSpawnedThisWave > 0
  /\ wm.spawnQueueIndex = Len(wm.spawnQueue)
  /\ Len(wm.spawnQueue) > 0
  /\ activeEnemies = 0

\* the current wave is not the last configured one, or endless mode is on
NotLastWave(m) == endlessMode \/ m.currentWaveIndex + 1 < Len(waves)

C3_EventuallyComplete ==
  <>(/\ wm.state = COMPLETE
     /\ wm.currentWaveIndex + 1 = Len(waves)
     /\ Emitted(wm, "all_waves_completed"))

\* the table of the specification, written out
TransitionTable ==
  {<<IDLE, COUNTDOWN>>,
   <<COUNTDOWN, SPAWNING>>, <<COUNTDOWN, IDLE>>,
   <<SPAWNING, WAITING_FOR_CLEAR>>, <<SPAWNING, IDLE>>,
   <<WAITING_FOR_CLEAR, COUNTDOWN>>, <<WAITING_FOR_CLEAR, COMPLETE>>,
   <<WAITING_FOR_CLEAR, IDLE>>,
   <<COMPLETE, IDLE>>}

\* the state after the requests of the running operation, starting from s
RECURSIVE StateAfter(_, _, _)
StateAfter(s, requested, k) ==
  IF k > Len(requested) THEN s
  ELSE IF requested[k].from = s
         THEN StateAfter(requested[k].after, requested, k + 1)
         ELSE "broken"

\* C4: under every operation each change of the state is a transition of the
\* table, a requested transition that is not in the table leaves the state
\* unchanged, and the state changes in no other way.
C4_OnlyTableTransitions ==
  [][/\ \A k \in 1..Len(wm'.requested) :
          LET r == wm'.requested[k]
          IN  /\ <<r.from, r.to>> \in TransitionTable => r.after = r.to
              /\ <<r.from, r.to>> \notin TransitionTable => r.after = r.from
      /\ wm'.state = StateAfter(wm.state, wm'.requested, 1)]_vars

\* C4 witness: a transition outside the table was requested (COMPLETE ->
\* COUNTDOWN by start()) and the state is as before
C4_Witness ==
  /\ wm.state = COMPLETE
  /\ \E k \in 1..Len(wm.requested) :
       /\ wm.requested[k].from = COMPLETE
       /\ wm.requested[k].to = COUNTDOWN

\* C5: start() in IDLE returns normally in COUNTDOWN with the wave index and
\* the statistics reset, the remaining countdown equal to the inter-wave delay
\* and countdown_started emitted for wave 1; start() on an active manager
\* changes nothing.
C5_StartFromIdle ==
  [][Start =>
       /\ wm.state = IDLE =>
            /\ ~wm'.threw
            /\ wm'.state = COUNTDOWN
            /\ wm'.currentWaveIndex + 1 = 0
            /\ wm'.enemiesSpawnedThisWave = 0
            /\ wm'.enemiesKilledThisWave = 0
            /\ wm'.enemiesLeakedThisWave = 0
            /\ wm'.totalEnemiesKilled = 0
            /\ wm'.totalEnemiesLeaked = 0
            /\ Max(0, wm'.countdownTime - wm'.countdownElapsed) = timeBetweenWaves
            /\ wm'.emitted = <<Event("countdown_started", 1, timeBetweenWaves)>>
       /\ isActive(wm) => wm' = Begin(wm)]_vars

\* the countdown_tick events of the running operation
Ticks(m) ==
  Cardinality({k \in 1..Len(m.emitted) : m.emitted[k].type = "countdown_tick"})

\* the tick intervals the elapsed countdown time has passed
Intervals(m) == m.countdownElapsed \div countdownTickInterval

\* C6: an update() during a countdown emits one countdown_tick for every tick
\* interval its deltaTime crosses, also when it crosses more than one.
C6_OneTickPerInterval ==
  [][(CountdownUpdate /\ ~wm.isPaused)
       => Ticks(wm') = Intervals(wm') - Intervals(wm)]_vars

\* C6 as amended: an update() during a countdown emits one countdown_tick if
\* its deltaTime crosses at least one tick interval, however many, and none
\* otherwise.
C6_OneTickPerUpdate ==
  [][(CountdownUpdate /\ ~wm.isPaused) =>
       Ticks(wm') = IF Intervals(wm') > Intervals(wm) THEN 1 ELSE 0]_vars

\* C6 witness: an update() has crossed several tick intervals at once and
\* emitted its tick
C6_Witness ==
  /\ Ticks(wm) = 1
  /\ \E k \in 1..Len(wm.emitted) :
       /\ wm.emitted[k].type = "countdown_tick"
       /\ wm.countdownTime = timeBetweenWaves
       /\ wm.emitted[k].value = timeBetweenWaves - 3000
       /\ wm.lastCountdownTick = 3

\* the queue is sorted non-decreasing by spawnTime
SortedBySpawnTime(queue) ==
  \A k \in 1..(Len(queue) - 1) : queue[k].spawnTime <= queue[k + 1].spawnTime

\* C7: for every wave and every spawn mode (for RANDOM every outcome of the
\* shuffle) the queue buildSpawnQueue leaves is sorted non-decreasing by
\* spawnTime.
C7_QueueSorted ==
  qMode # "none" => SortedBySpawnTime(qQueue)

\* C7 witness: a shuffled queue that was pushed out of order (a negative
\* delay) and has all its entries after the sort
C7_Witness ==
  /\ qMode = RANDOM
  /\ ~SortedBySpawnTime(qRaw)
  /\ Len(qQueue) = Len(qRaw)
  /\ Len(qQueue) >= 3

\* the number of entries of a type in a queue
TypeCount(queue, t) ==
  Cardinality({k \in 1..Len(queue) : queue[k].type = t})

\* the entries the groups of a type ask for
RECURSIVE GroupCount(_, _, _)
GroupCount(enemies, t, g) ==
  IF g > Len(enemies) THEN 0
  ELSE (IF enemies[g].type = t THEN Max(0, enemies[g].count) ELSE 0)
         + GroupCount(enemies, t, g + 1)

\* the types of a queue, in order
TypesOf(queue) == [k \in 1..Len(queue) |-> queue[k].type]

\* C8: for every wave and every outcome of the shuffle the RANDOM queue has,
\* per enemy type, as many entries as the SEQUENTIAL queue of the same wave,
\* namely the counts of the groups of that type.
C8_RandomSameMultiset ==
  qMode = RANDOM =>
    \A t \in EnemyType :
      /\ TypeCount(qQueue, t)
           = TypeCount(SortBySpawnTime(buildSequentialQueue(qEnemies)), t)
      /\ TypeCount(qQueue, t) = GroupCount(qEnemies, t, 1)

\* C8 witness: a shuffle that changed the order of the types of a wave with
\* two types
C8_Witness ==
  /\ qMode = RANDOM
  /\ TypesOf(qRaw) # TypesOf(buildSequentialQueue(qEnemies))
  /\ TypeCount(qQueue, "fast") >= 2
  /\ TypeCount(qQueue, "tank") >= 1

\* the groups of the wave have different types, so that an entry's type
\* names its group
DistinctTypes ==
  \A g, h \in 1..Len(qEnemies) : qEnemies[g].type = qEnemies[h].type => g = h

GroupOf(t) == CHOOSE g \in 1..Len(qEnemies) : qEnemies[g].type = t

\* the entries pushed before entry n for the same group
EarlierOfGroup(n) ==
  Cardinality({k \in 1..(n - 1) : qRaw[k].type = qRaw[n].type})

\* the delays of the groups of the entries pushed before entry n
RECURSIVE DelaysBefore(_)
DelaysBefore(n) ==
  IF n <= 1 THEN 0
  ELSE DelaysBefore(n - 1) + qEnemies[GroupOf(qRaw[n - 1].type)].spawnDelay

\* C9: in INTERLEAVED mode each group has its own clock: the k-th entry
\* (k = 0, 1, ...) pushed for a group has spawnTime k x the group's
\* spawnDelay.
C9_IndependentClocks ==
  (qMode = INTERLEAVED /\ DistinctTypes) =>
    \A n \in 1..Len(qRaw) :
      qRaw[n].spawnTime
        = EarlierOfGroup(n) * qEnemies[GroupOf(qRaw[n].type)].spawnDelay

\* C9 as amended: in INTERLEAVED mode the groups share one running clock: an
\* entry's spawnTime is the sum of the spawnDelays of the groups of all the
\* entries pushed before it, whatever their group.
C9_SharedClock ==
  (qMode = INTERLEAVED /\ DistinctTypes) =>
    \A n \in 1..Len(qRaw) : qRaw[n].spawnTime = DelaysBefore(n)

\* C9 witness: two groups with delays 1000 and 0, two entries each; the
\* second entry of the second group is pushed at 2000
C9_Witness ==
  /\ qMode = INTERLEAVED
  /\ Len(qEnemies) = 2
  /\ DistinctTypes
  /\ qEnemies[1].spawnDelay = 1000
  /\ qEnemies[2].spawnDelay = 0
  /\ qEnemies[1].count = 2
  /\ qEnemies[2].count = 2
  /\ qRaw[4].type = qEnemies[2].type
  /\ qRaw[4].spawnTime = 2000

\* the wave of C10: a group A of 3 and a group B of 2, of different types,
\* with non-negative delays
ThreeAndTwo ==
  /\ Len(qEnemies) = 2
  /\ qEnemies[1].count = 3
  /\ qEnemies[2].count = 2
  /\ qEnemies[1].type # qEnemies[2].type
  /\ qEnemies[1].spawnDelay >= 0
  /\ qEnemies[2].spawnDelay >= 0

\* C10: in INTERLEAVED mode the sorted queue of a wave with groups A (3) and
\* B (2) and non-negative delays has the types A, B, A, B, A.
C10_Alternates ==
  (qMode = INTERLEAVED /\ ThreeAndTwo) =>
    TypesOf(qQueue) = <<qEnemies[1].type, qEnemies[2].type, qEnemies[1].type,
                        qEnemies[2].type, qEnemies[1].type>>

\* C10 witness: the wave A (3), B (2) with entries at equal times (A's delay
\* is 0), which the sort has to keep in order
C10_Witness ==
  /\ qMode = INTERLEAVED
  /\ ThreeAndTwo
  /\ qEnemies[1].spawnDelay = 0
  /\ qEnemies[2].spawnDelay = 1000
  /\ Len(qQueue) = 5

\* update() runs the spawning of a wave: the manager is unpaused in SPAWNING
\* or WAITING_FOR_CLEAR
InWave(m) == m.state \in {SPAWNING, WAITING_FOR_CLEAR} /\ ~m.isPaused

\* the enemy_spawned events of the running operation, in order
SpawnEvents(m) == SelectSeq(m.emitted, LAMBDA e : e.type = "enemy_spawned")

\* the wave of FiveFast 6000 ms after it began: the wave clock started at
\* -startDelay
SixSecondsIn ==
  /\ waves = FiveFast
  /\ wm.currentWaveIndex = 0
  /\ wm.waveElapsedTime + waves[1].startDelay = 6000

\* C11: for the wave [{FAST, count 5, spawnDelay 1000}] with startDelay 2000
\* in sequential mode at normal difficulty, once the clock has advanced by
\* exactly 6000 ms since the wave began (in any split into update() steps)
\* exactly 5 enemies have been spawned, and every update() of the wave emits
\* its enemy_spawned events with type FAST and consecutive spawnIndex, so the
\* events are FAST 1..5 in order.
C11_FiveSpawnedAfterSixSeconds ==
  /\ [](SixSecondsIn => (wm.enemiesSpawnedThisWave = 5 /\ wm.spawnQueueIndex = 5))
  /\ [][(SpawnUpdate /\ waves = FiveFast /\ InWave(wm)) =>
          LET new == SpawnEvents(wm')
          IN  /\ Len(new) = wm'.enemiesSpawnedThisWave - wm.enemiesSpawnedThisWave
              /\ \A k \in 1..Len(new) :
                    /\ new[k].enemyType = "fast"
                    /\ new[k].waveNumber = 1
                    /\ new[k].value = wm.enemiesSpawnedThisWave + k]_vars

C11_Witness ==
  /\ SixSecondsIn
  /\ wm.state = WAITING_FOR_CLEAR
  /\ wm.enemiesSpawnedThisWave = 5
  /\ Len(SpawnEvents(wm)) \in 1..4

\* the number of queue entries due at wave time t
DueCount(queue, t) ==
  IF t < 0 THEN 0
  ELSE Cardinality({k \in 1..Len(queue) : queue[k].spawnTime <= t})

\* C12: a wave begins with its clock at -startDelay and nothing spawned; an
\* update(d) of a running wave advances the wave clock by d and leaves
\* spawned exactly the queue entries whose spawnTime <= the wave clock (none
\* while the clock is negative), which are a prefix of the queue; the entries
\* that became due in this call, however many, are spawned in queue order,
\* each with one enemy_spawned event and one increment of the wave's counter.
C12_SpawnedIsDuePrefix ==
  /\ [](Emitted(wm, "wave_started") =>
          /\ wm.waveElapsedTime = 0 - scaledWave(wm.currentWaveIndex).startDelay
          /\ wm.spawnQueueIndex = 0
          /\ wm.enemiesSpawnedThisWave = 0)
  /\ [][\A d \in SpawnDeltaMs :
          (SpawnUpdate /\ Frame({d}) /\ InWave(wm)) =>
            LET elapsed == wm.waveElapsedTime + d
                due == DueCount(wm.spawnQueue, elapsed)
                new == SpawnEvents(wm')
            IN  /\ wm'.waveElapsedTime = elapsed
                /\ wm'.spawnQueueIndex = due
                /\ \A k \in 1..due : wm.spawnQueue[k].spawnTime <= elapsed
                /\ Len(new) = due - wm.spawnQueueIndex
                /\ \A k \in 1..Len(new) :
                      /\ new[k].enemyType = wm.spawnQueue[wm.spawnQueueIndex + k].type
                      /\ new[k].value = wm.enemiesSpawnedThisWave + k
                /\ wm'.enemiesSpawnedThisWave = wm.enemiesSpawnedThisWave + Len(new)]_vars

\* a catch-up update that spawned several entries of both types after the
\* start delay
C12_Witness ==
  /\ waves = MixedWave
  /\ wm.currentWaveIndex = 0
  /\ Len(SpawnEvents(wm)) = 3
  /\ wm.spawnQueueIndex = 3
  /\ wm.waveElapsedTime >= 1000

\* the fields of the instance, without the record of the running operation
Fields(m) == [m EXCEPT !.emitted = <<>>, !.requested = <<>>, !.threw = FALSE]

\* C13: stop() in any state leaves the manager in IDLE with an empty spawn
\* queue and the pause flag cleared; an update() in IDLE changes nothing,
\* spawns no enemy and emits no event, and only start() leaves IDLE, so the
\* entries that were queued and not spawned are never spawned.
C13_StopDiscardsWave ==
  /\ [][Stop => (/\ wm'.state = IDLE
                 /\ wm'.spawnQueue = <<>>
                 /\ ~wm'.isPaused)]_vars
  /\ [][(Update /\ wm.state = IDLE) =>
          (/\ Fields(wm') = Fields(wm)
           /\ wm'.emitted = <<>>
           /\ activeEnemies' = activeEnemies)]_vars
  /\ [][(wm.state = IDLE /\ wm'.state # IDLE) => Start]_vars
  /\ [](wm.state = IDLE => wm.spawnQueue = <<>>)

\* stopped in a wave that had entries left to spawn
C13_Witness ==
  /\ wm.state = IDLE
  /\ ~destroyed
  /\ wm.currentWaveIndex >= 0
  /\ wm.enemiesSpawnedThisWave > 0
  /\ wm.enemiesSpawnedThisWave < getWaveEnemyCount(scaledWave(wm.currentWaveIndex))

\* C14: while the manager is paused update(deltaTime) changes no field,
\* emits no event and spawns no enemy, for every deltaTime; pause() and
\* resume() write the pause flag and nothing else, so the updates after
\* resume() continue from the values held at pause().
C14_PausedUpdateIsNoOp ==
  /\ [][(Update /\ wm.isPaused) =>
          (/\ Fields(wm') = Fields(wm)
           /\ wm'.emitted = <<>>
           /\ activeEnemies' = activeEnemies
           /\ unresolved' = unresolved)]_vars
  /\ [][Pause => Fields(wm') = [Fields(wm) EXCEPT !.isPaused = TRUE]]_vars
  /\ [][Resume => Fields(wm') = [Fields(wm) EXCEPT !.isPaused = FALSE]]_vars

\* paused in the middle of a wave, an entry of the queue being due at the
\* next frame
C14_Witness ==
  /\ wm.isPaused
  /\ wm.state = SPAWNING
  /\ wm.spawnQueueIndex < Len(wm.spawnQueue)
  /\ wm.waveElapsedTime + 1000 >= wm.spawnQueue[wm.spawnQueueIndex + 1].spawnTime
  /\ WithinBounds

\* the entries of the log of the last operation
LogEntries == {cs.log[k] : k \in 1..Len(cs.log)}

\* the projectile of a log entry (still in the manager after the update)
ProjectileOf(entry) ==
  CHOOSE p \in {cs.projectiles[i] : i \in 1..Len(cs.projectiles)} :
    p.id = entry.projectile

\* the target of a log entry
TargetOf(entry) ==
  CHOOSE t \in {cs.targets[k] : k \in 1..Len(cs.targets)} : t.id = entry.target

\* the entry is a call or event of a direct hit (processHit)
DirectHit(entry) == entry.target # 0 /\ entry.distance = -1

\* the entry is a call or event of an area hit on a target
AreaHit(entry) == entry.target # 0 /\ entry.distance >= 0

\* C15: a projectile with area damage never resolves a direct hit in
\* CombatSystem.update(), in flight or not: no takeDamage call, registerHit
\* call or projectile_hit/target_damaged event of processHit is made for it.
C15_AreaNeverDirect ==
  \A entry \in LogEntries :
    DirectHit(entry) => ~hasAreaDamage(ProjectileOf(entry))

\* C16: every hit CombatSystem.update() resolves, direct or area, is on a
\* target whose isAlive is true when the hit is resolved, targets killed
\* earlier in the same update() included.
C16_OnlyAliveTargetsHit ==
  \A entry \in LogEntries :
    (/\ entry.target # 0
     /\ entry.kind \in {"takeDamage", "registerHit", "projectile_hit",
                        "target_damaged"})
      => entry.alive

\* C17: a projectile with pierce p >= 1 has registered at most p hits, all
\* on distinct targets, no update() resolves two hits of it on one target,
\* and once the p-th hit is registered the projectile is inactive.
C17_PierceLimit ==
  /\ \A i \in 1..Len(cs.projectiles) :
       LET p == cs.projectiles[i]
       IN  p.config.pierce >= 1 =>
             /\ p.hitCount <= p.config.pierce
             /\ Cardinality(p.hitTargetIds) = p.hitCount
             /\ (p.hitCount = p.config.pierce => ~p.isActive)
             /\ (p.hitCount < p.config.pierce /\ p.distanceTraveled < p.maxDistance
                   => p.isActive)
  /\ \A j, k \in 1..Len(cs.log) :
       (/\ j # k
        /\ cs.log[j].kind = "takeDamage"
        /\ cs.log[k].kind = "takeDamage"
        /\ cs.log[j].projectile = cs.log[k].projectile
        /\ ProjectileOf(cs.log[j]).config.pierce >= 1)
         => cs.log[j].target # cs.log[k].target

\* an arrow (pierce 2) that has just registered its second hit, on a second
\* target
C17_Witness ==
  \E i \in 1..Len(cs.projectiles) :
    /\ cs.projectiles[i].config.pierce = 2
    /\ cs.projectiles[i].hitCount = 2
    /\ Cardinality(cs.projectiles[i].hitTargetIds) = 2
    /\ ~cs.projectiles[i].isActive
    /\ \E entry \in LogEntries :
         entry.kind = "registerHit" /\ entry.projectile = cs.projectiles[i].id

\* the three results of calculateDamage on the input drawn
CalcResults == {calc.physical, calc.magical, calc.trueDamage}

\* C18: calculateDamage returns an integer >= 1 for PHYSICAL, MAGICAL and
\* TRUE, every amount >= 0 (amounts below 1 included) and every armor >= 0,
\* and every takeDamage call of a resolved hit carries an amount >= 1.
C18_DamageAtLeastOne ==
  /\ calc.done => \A v \in CalcResults : v \in Int /\ v >= 1
  /\ \A entry \in LogEntries : entry.kind = "takeDamage" => entry.amount >= 1

\* calculateDamage applied to the amount 0.4 against armor 100
C18_Witness ==
  /\ calc.done
  /\ calc.num = 4
  /\ calc.den = 10
  /\ calc.armor = 100
  /\ calc.physical = 1
  /\ calc.magical = 1
  /\ calc.trueDamage = 1

\* the real number x * num / den of the reference formula, x the amount
\* drawn, as the fraction n / d of two naturals
RefFraction(num, den) ==
  LET x == CalcAmount(calc)
      s == Max(0, 0 - x.e)
  IN  [n |-> BShl(BMul(x.m, BFromInt(num)), x.e + s),
       d |-> BShl(BFromInt(den), s)]

\* round(n / d) in exact arithmetic, halves upwards
RefRound(f) == BToInt(BDivMod(BAdd(BAdd(f.n, f.n), f.d), BAdd(f.d, f.d)).q)

\* n / d lies exactly halfway between two integers
RefTie(f) == BDivMod(BAdd(BAdd(f.n, f.n), f.d), BAdd(f.d, f.d)).r = <<>>

\* amount * 100 / (armor + 100), with armor and with 0.7 * armor, and amount
RefPhysical == RefFraction(100, calc.armor + 100)
RefMagical == RefFraction(1000, 7 * calc.armor + 1000)
RefTrue == RefFraction(1, 1)

\* C19 as stated: calculateDamage equals the reference formula in exact
\* arithmetic for every input, with the three concrete values, and MAGICAL
\* is never less than PHYSICAL.
C19_EqualsReference ==
  calc.done =>
    /\ calc.physical = Max(1, RefRound(RefPhysical))
    /\ calc.magical = Max(1, RefRound(RefMagical))
    /\ calc.trueDamage = Max(1, RefRound(RefTrue))
    /\ (calc.num = 100 /\ calc.den = 1 /\ calc.armor = 100
          => calc.physical = 50 /\ calc.magical = 59)
    /\ (calc.num = 100 /\ calc.den = 1 /\ calc.armor = 999999
          => calc.trueDamage = 100)
    /\ calc.magical >= calc.physical

\* the result v agrees with the reference n / d: equal to it, or one below
\* it when n / d lies exactly halfway between two integers
AgreesUpToTie(v, f) ==
  \/ v = Max(1, RefRound(f))
  \/ RefTie(f) /\ v = Max(1, RefRound(f) - 1)

\* C19: calculateDamage equals the reference formula except at exact ties
\* of amount * 100 / (effective armor + 100), where the double arithmetic
\* of amount * (1 - reduction) may give the integer below; TRUE damage
\* equals max(1, round(amount)) always; the three concrete values hold and
\* MAGICAL is never less than PHYSICAL.
C19_EqualsReferenceUpToTies ==
  calc.done =>
    /\ AgreesUpToTie(calc.physical, RefPhysical)
    /\ AgreesUpToTie(calc.magical, RefMagical)
    /\ calc.trueDamage = Max(1, RefRound(RefTrue))
    /\ (calc.num = 100 /\ calc.den = 1 /\ calc.armor = 100
          => calc.physical = 50 /\ calc.magical = 59)
    /\ (calc.num = 100 /\ calc.den = 1 /\ calc.armor = 999999
          => calc.trueDamage = 100)
    /\ calc.magical >= calc.physical

\* amount 7 against armor 180: 7 * 100 / 280 is 2.5, the code returns 2
C19_Witness ==
  /\ calc.done
  /\ calc.num = 7
  /\ calc.den = 1
  /\ calc.armor = 180
  /\ RefTie(RefPhysical)
  /\ RefRound(RefPhysical) = 3
  /\ calc.physical = 2

\* x = y for doubles
DEqual(x, y) == ~DLess(x, y) /\ ~DLess(y, x)

\* the double x is num/den up to a relative error of 2^-50 (three roundings
\* of 2^-53 each)
DNear(x, num, den) ==
  LET s == Max(0, 0 - x.e)
      lhs == BShl(BMul(x.m, BFromInt(den)), x.e + s)
      rhs == BShl(BFromInt(num), s)
      diff == IF BLess(lhs, rhs) THEN BSub(rhs, lhs) ELSE BSub(lhs, rhs)
  IN  ~BLess(rhs, BShl(diff, 50))

\* C20: a target damaged by an area event of radius r and amount a at
\* distance d has d <= r and pre-armor damage a * (1 - (d / r) * 0.5):
\* exactly a at d = 0, exactly a / 2 at d = r, within [a / 2, a], and the
\* damage applied is the armor formula of that pre-armor damage.
C20_AreaFalloff ==
  \A entry \in LogEntries :
    AreaHit(entry) =>
      LET a == ProjectileOf(entry).config.damage
          r == ProjectileOf(entry).config.areaRadius
          d == entry.distance
      IN  /\ r > 0
          /\ d <= r
          /\ DNear(entry.base, a * (2 * r - d), 2 * r)
          /\ (d = 0 => DEqual(entry.base, DFromInt(a)))
          /\ (d = r => DEqual(DAdd(entry.base, entry.base), DFromInt(a)))
          /\ ~DLess(DAdd(entry.base, entry.base), DFromInt(a))
          /\ ~DLess(DFromInt(a), entry.base)
          /\ entry.amount =
               calculateDamage([amount |-> entry.base, type |-> MAGICAL],
                               TargetOf(entry))

\* an area event of amount 100 and radius 40 that damaged an armored target
\* on its edge with a pre-armor damage of 50
C20_Witness ==
  \E entry \in LogEntries :
    /\ AreaHit(entry)
    /\ entry.kind = "takeDamage"
    /\ ProjectileOf(entry).config.damage = 100
    /\ ProjectileOf(entry).config.areaRadius = 40
    /\ entry.distance = 40
    /\ DEqual(entry.base, DFromInt(50))
    /\ TargetOf(entry).armor > 0
    /\ entry.alive

(***************************************************************************)
(* SpatialGrid                                                             *)
(***************************************************************************)
\* every cell index and every entity key either index mentions
IndexedCells(g) ==
  DOMAIN g.cells \cup UNION {g.entityCells[e] : e \in DOMAIN g.entityCells}

IndexedEntities(g) ==
  DOMAIN g.entityCells \cup UNION {Members(g.cells[c]) : c \in DOMAIN g.cells}

InCell(g, e, c) == MapHas(g.cells, c) /\ e \in Members(g.cells[c])

HasCell(g, e, c) == MapHas(g.entityCells, e) /\ c \in g.entityCells[e]

\* C21: after any sequence of insert, remove, update and clear the two
\* indices agree: entity e is in the set of cell c if and only if c is in
\* the cell set of e
C21_IndicesConsistent ==
  \A e \in IndexedEntities(grid), c \in IndexedCells(grid) :
    InCell(grid, e, c) <=> HasCell(grid, e, c)

\* an entity was removed while the other one stays in its four cells
C21_Witness ==
  /\ gridCall.op = "remove"
  /\ gridCall.present
  /\ entityCount(grid) = 1
  /\ cellCount(grid) = 4

ValidCells(g) == 0..(g.cols * g.rows - 1)

\* C22: after insert(e, b) or update(e, b), with b anywhere, e occupies at
\* least one cell and every cell it occupies is a valid index
C22_OccupiesValidCell ==
  gridCall.op \in {"insert", "update"} =>
    /\ MapHas(grid.entityCells, gridCall.entity)
    /\ grid.entityCells[gridCall.entity] # {}
    /\ grid.entityCells[gridCall.entity] \subseteq ValidCells(grid)

\* the cells of the world the closed box overlaps: cell (col, row) covers
\* [col * cellSize, (col + 1) * cellSize) in x and likewise in y
Overlapped(g, bounds) ==
  {c \in ValidCells(g) :
     /\ (c % g.cols) * g.cellSize <= bounds.x + bounds.width
     /\ bounds.x < ((c % g.cols) + 1) * g.cellSize
     /\ (c \div g.cols) * g.cellSize <= bounds.y + bounds.height
     /\ bounds.y < ((c \div g.cols) + 1) * g.cellSize}

NoDuplicates(list) ==
  \A i, j \in 1..Len(list) : list[i] = list[j] => i = j

\* C23: query(bounds, exclude) returns every entity at most once, never the
\* excluded one, and exactly the entities of the cells the box overlaps
C23_QueryIsDeduplicatedUnion ==
  gridCall.op = "query" =>
    /\ NoDuplicates(gridCall.result)
    /\ gridCall.exclude \notin Members(gridCall.result)
    /\ Members(gridCall.result) =
         UNION {Members(grid.cells[c]) :
                  c \in Overlapped(grid, gridCall.bounds) \cap DOMAIN grid.cells}
           \ {gridCall.exclude}

\* the query box overlaps several cells of an entity, which is returned
\* once, and a cell of the excluded entity, which is not returned
C23_Witness ==
  /\ gridCall.op = "query"
  /\ gridCall.exclude = "b"
  /\ gridCall.result = <<"a">>
  /\ Cardinality({c \in Overlapped(grid, gridCall.bounds) : InCell(grid, "a", c)}) > 1
  /\ \E c \in Overlapped(grid, gridCall.bounds) : InCell(grid, "b", c)

\* the same members in both indices
SameIndices(g, h) ==
  /\ g.entityCells = h.entityCells
  /\ DOMAIN g.cells = DOMAIN h.cells
  /\ \A c \in DOMAIN g.cells :
       /\ Members(g.cells[c]) = Members(h.cells[c])
       /\ Len(g.cells[c]) = Len(h.cells[c])

\* C24: update(e, b) leaves both indices as remove(e) followed by
\* insert(e, b) does, and leaves the cells and cellCount as they were when
\* b maps to the cell set e has
UpdateRefinesRemoveInsert ==
  gridCall'.op = "update" =>
    /\ SameIndices(grid',
                   SpatialGrid_insert(SpatialGrid_remove(grid, gridCall'.entity),
                                      gridCall'.entity, gridCall'.bounds))
    /\ (/\ MapHas(grid.entityCells, gridCall'.entity)
        /\ grid.entityCells[gridCall'.entity]
             = Members(getCellIndices(grid, gridCall'.bounds)))
         => /\ grid'.cells = grid.cells
            /\ cellCount(grid') = cellCount(grid)

C24_UpdateRefinesRemoveInsert == [][UpdateRefinesRemoveInsert]_vars

\* an entity of the grid was moved by update into a far cell while the other
\* entity stays in its cell
C24_Witness ==
  /\ gridCall.op = "update"
  /\ gridCall.present
  /\ gridCall.entity = "a"
  /\ grid.entityCells["a"] = {33}
  /\ MapHas(grid.entityCells, "b")
  /\ 11 \in grid.entityCells["b"]

(***************************************************************************)
(* ObjectPool                                                              *)
(***************************************************************************)
\* C25: whatever the constructor arguments and the operations, availableCount
\* never exceeds maxSize
C25_AvailableCapped == availableCount(pool) <= pool.maxSize

\* C26: release(obj) of an object that is not active in the pool changes
\* neither the available objects nor the active ones and runs no reset hook
ReleaseOfInactiveIsNoOp ==
  (poolCall'.op = "release" /\ ~poolCall'.active) =>
    /\ pool'.pool = pool.pool
    /\ pool'.activeObjects = pool.activeObjects
    /\ availableCount(pool') = availableCount(pool)
    /\ activeCount(pool') = activeCount(pool)
    /\ pool'.resets = <<>>

C26_ReleaseOfInactiveIsNoOp == [][ReleaseOfInactiveIsNoOp]_vars

\* an object that was released before is released again while the pool has
\* room and another object is active: it stays in the pool once
C26_Witness ==
  /\ poolCall.op = "release"
  /\ ~poolCall.active
  /\ poolCall.obj \in Members(pool.pool)
  /\ Len(pool.pool) < pool.maxSize
  /\ activeCount(pool) > 0
  /\ NoDuplicates(pool.pool)

(***************************************************************************)
(* GameStateManager                                                        *)
(***************************************************************************)
\* the states each guarded operation is permitted in
PermittedSources ==
  [startGame |-> {LOADING, MENU}, pauseGame |-> {PLAYING},
   resumeGame |-> {PAUSED}, triggerGameOver |-> {PLAYING},
   triggerVictory |-> {PLAYING}]

\* C27: a guarded operation called in a state that is not one of its
\* permitted sources leaves the state as it is, notifies no state change and
\* emits no event; it changes the state only from a permitted source
GuardedOperations ==
  \A op \in DOMAIN PermittedSources :
    gameCall'.op = op =>
      /\ game'.currentState # game.currentState
           => game.currentState \in PermittedSources[op]
      /\ game.currentState \notin PermittedSources[op]
           => /\ game'.currentState = game.currentState
              /\ game'.notified = <<>>
              /\ game'.emitted = <<>>

C27_GuardedOperations == [][GuardedOperations]_vars

\* pauseGame() was called after the game was lost
C27_Witness ==
  /\ gameCall.op = "pauseGame"
  /\ gameCall.from = GAME_OVER
  /\ game.currentState = GAME_OVER
  /\ game.lives = 0
  /\ game.emitted = <<>>

(***************************************************************************)
(* The clock of the sequential queue                                       *)
(***************************************************************************)
\* the entries group g pushes, none for a count of 0 or less
EntriesOf(enemies, g) == Max(0, enemies[g].count)

\* the entries pushed, and the time the clock was advanced by, before group g
RECURSIVE EntriesBefore(_, _)
EntriesBefore(enemies, g) ==
  IF g <= 1 THEN 0
  ELSE EntriesBefore(enemies, g - 1) + EntriesOf(enemies, g - 1)

RECURSIVE ClockBefore(_, _)
ClockBefore(enemies, g) ==
  IF g <= 1 THEN 0
  ELSE ClockBefore(enemies, g - 1)
         + EntriesOf(enemies, g - 1) * enemies[g - 1].spawnDelay

\* C28: in sequential mode entry j (from 0) of group g is pushed with the
\* type of the group and spawnTime = the sum of count * spawnDelay of the
\* groups before g, plus j * spawnDelay of g; the first entry of the wave is
\* at 0, the first entry of a later group is at 0 only if the groups before
\* it advanced the clock by 0 in total
C28_SequentialClockContinues ==
  qMode = SEQUENTIAL =>
    /\ Len(qRaw) = EntriesBefore(qEnemies, Len(qEnemies) + 1)
    /\ \A g \in 1..Len(qEnemies) :
         \A j \in 0..(EntriesOf(qEnemies, g) - 1) :
           LET entry == qRaw[EntriesBefore(qEnemies, g) + j + 1]
           IN  /\ entry.type = qEnemies[g].type
               /\ entry.spawnTime =
                    ClockBefore(qEnemies, g) + j * qEnemies[g].spawnDelay
               /\ (g = 1 /\ j = 0) => entry.spawnTime = 0
               /\ (g > 1 /\ j = 0 /\ entry.spawnTime = 0)
                    => ClockBefore(qEnemies, g) = 0

\* two entries of a first group a second apart, then a second group whose
\* first entry is two seconds in
C28_Witness ==
  /\ qMode = SEQUENTIAL
  /\ Len(qEnemies) = 2
  /\ qEnemies[1].count = 2
  /\ qEnemies[1].spawnDelay = 1000
  /\ qEnemies[2].count >= 2
  /\ qEnemies[2].spawnDelay = 1000
  /\ qRaw[3].spawnTime = 2000
  /\ qRaw[4].spawnTime = 3000

Degraded(wave) == \A g \in 1..Len(wave.enemies) : wave.enemies[g].count <= 0

\* the wave of the running manager is a defined wave and is degraded
DegradedWaveRuns(m) ==
  /\ isActive(m)
  /\ m.currentWaveIndex >= 0
  /\ m.currentWaveIndex < Len(waves)
  /\ Degraded(waves[m.currentWaveIndex + 1])

\* C29: setWaves accepts a list with degraded waves; a degraded wave runs
\* with an empty spawn queue in every spawn mode and spawns no enemy; the
\* first update() that is not paused after the wave began completes it when
\* the enemy manager has no active enemy
C29_DegradedWaveCompletes ==
  /\ [][\A newWaves \in DegradedWaveLists :
          SetWavesTo(newWaves) => (waves' = newWaves /\ ~wm'.threw)]_vars
  /\ [](DegradedWaveRuns(wm) =>
          /\ wm.spawnQueue = <<>>
          /\ wm.enemiesSpawnedThisWave = 0
          /\ SpawnEvents(wm) = <<>>)
  /\ [][(Update /\ DegradedWaveRuns(wm) /\ wm.state = SPAWNING
          /\ ~wm.isPaused /\ activeEnemies = 0)
          => /\ Emitted(wm', "wave_completed")
             /\ wm'.state # SPAWNING
             /\ activeEnemies' = 0]_vars

\* a wave without groups was completed by the first update() after it began,
\* still within its start delay
C29_Witness ==
  /\ waves = NoGroups
  /\ wm.currentWaveIndex = 0
  /\ wm.waveElapsedTime = -1000
  /\ Emitted(wm, "wave_completed")
  /\ \E k \in 1..Len(wm.requested) :
       wm.requested[k].from = SPAWNING /\ wm.requested[k].to = WAITING_FOR_CLEAR

(***************************************************************************)
(* Completion, spawning and restart of the wave system.                    *)
(***************************************************************************)
\* the wave numbers the operation that led to m completed
CompletedWaves(m) ==
  {m.emitted[k].waveNumber :
     k \in {j \in 1..Len(m.emitted) : m.emitted[j].type = "wave_completed"}}

C36_WavesCompletedCounts ==
  /\ [](wm.state = COUNTDOWN /\ wm.currentWaveIndex = -1
          => getTotalStats(wm).wavesCompleted = 0)
  /\ [](wm.state = COMPLETE => getTotalStats(wm).wavesCompleted = Len(waves))
  /\ [][CompletedWaves(wm') # {}
          => getTotalStats(wm').wavesCompleted
               = getTotalStats(wm).wavesCompleted + 1]_vars

C40_OnlyCurrentCells ==
  gridCall.op \in {"insert", "update"}
    => /\ MapHas(grid.entityCells, gridCall.entity)
       /\ grid.entityCells[gridCall.entity] = Overlapped(grid, gridCall.bounds)
       /\ \A c \in IndexedCells(grid) :
            InCell(grid, gridCall.entity, c)
              => c \in Overlapped(grid, gridCall.bounds)

(***************************************************************************)
(* The available list and the active set of the pool.                      *)
(***************************************************************************)
\* the object acquire() returned: the one it added to the active set last
Acquired(p) == p.activeObjects[Len(p.activeObjects)]

\* acquire() hands out an object that was not active when it was called
AcquireReturnsInactive ==
  poolCall'.op = "acquire" => Acquired(pool') \notin Members(pool.activeObjects)

\* C39: after any sequence of acquire, release, releaseAll, prewarm and
\* clear no object is both available and active, no object is twice in the
\* available list, and acquire() never returns an object that is active.
C39_AvailableAndActiveDisjoint ==
  /\ [](/\ Members(pool.pool) \cap Members(pool.activeObjects) = {}
        /\ NoDuplicates(pool.pool)
        /\ NoDuplicates(pool.activeObjects))
  /\ [][AcquireReturnsInactive]_vars

\* acquire() has handed out an object while another one is active and one
\* is available, after an earlier object has left the pool for good
C39_Witness ==
  /\ poolCall.op = "acquire"
  /\ activeCount(pool) >= 2
  /\ availableCount(pool) >= 1
  /\ pool.created > totalCount(pool)

(***************************************************************************)
(* The calls and events of one hit, and of one area event.                 *)
(***************************************************************************)
\* the positions of the log where processHit begins to resolve a hit
DirectStarts ==
  {j \in 1..Len(cs.log) : cs.log[j].kind = "takeDamage" /\ DirectHit(cs.log[j])}

\* the entries j and k of the log belong to the same hit
SameHit(j, k) ==
  /\ cs.log[k].projectile = cs.log[j].projectile
  /\ cs.log[k].target = cs.log[j].target
  /\ cs.log[k].distance = cs.log[j].distance

\* the takeDamage calls on the target of entry j later in the same update
LaterDamage(j) ==
  {k \in (j + 1)..Len(cs.log) :
     cs.log[k].kind = "takeDamage" /\ cs.log[k].target = cs.log[j].target}

\* the target of entry j is not alive right after the takeDamage of entry j:
\* the next hit on it finds it dead, or it is dead when update() returns
DeadAfter(j) ==
  IF LaterDamage(j) = {} THEN ~isAlive(TargetOf(cs.log[j]))
  ELSE ~cs.log[CHOOSE k \in LaterDamage(j) :
                 \A l \in LaterDamage(j) : k <= l].alive

\* what processHit is to call and emit for the hit that begins at entry j
HitBlock(j) ==
  <<"takeDamage", "registerHit", "projectile_hit", "target_damaged">>
  \o (IF DeadAfter(j) THEN <<"target_killed", "onDeath">> ELSE <<>>)

\* the registerHit calls of the projectile of entry j after the hit of j
LaterHits(j) ==
  {k \in (j + 2)..Len(cs.log) :
     /\ cs.log[k].kind = "registerHit"
     /\ cs.log[k].projectile = cs.log[j].projectile}

\* registerHit of the hit that begins at entry j returned false
CannotContinue(j) ==
  ~Positive(pierceRemaining(
     [ProjectileOf(cs.log[j]) EXCEPT
        !.hitCount = @ - Cardinality(LaterHits(j))]))

\* C31: one direct hit is one takeDamage on the target, then projectile_hit,
\* target_damaged and, exactly if the target is not alive after the damage,
\* target_killed followed by onDeath; no call or event of a direct hit
\* stands outside such a run; and when registerHit reports that the
\* projectile cannot continue, the projectile is inactive and resolves no
\* further hit in the same update().
C31_HitSequence ==
  /\ \A j \in DirectStarts :
       /\ \A n \in 1..Len(HitBlock(j)) :
            /\ j + n - 1 <= Len(cs.log)
            /\ cs.log[j + n - 1].kind = HitBlock(j)[n]
            /\ SameHit(j, j + n - 1)
       /\ CannotContinue(j)
            => /\ ~ProjectileOf(cs.log[j]).isActive
               /\ \A k \in (j + Len(HitBlock(j)))..Len(cs.log) :
                    cs.log[k].projectile # cs.log[j].projectile
  /\ \A k \in 1..Len(cs.log) :
       DirectHit(cs.log[k]) =>
         \E j \in DirectStarts : j <= k /\ k < j + Len(HitBlock(j))

\* an arrow has killed the first target, gone on through the second one
\* without killing it, and is inactive after this second hit
C31_Witness ==
  \E j, k \in DirectStarts :
    /\ j + 6 = k
    /\ cs.log[j].projectile = cs.log[k].projectile
    /\ ProjectileOf(cs.log[j]).config.type = ARROW
    /\ cs.log[j].alive
    /\ cs.log[j + 4].kind = "target_killed"
    /\ cs.log[j + 5].kind = "onDeath"
    /\ Len(HitBlock(k)) = 4
    /\ ~ProjectileOf(cs.log[j]).isActive

\* the entries of the log of c for projectile id of the given kind and target
EntriesFor(c, id, kind, target) ==
  {n \in 1..Len(c.log) :
     /\ c.log[n].projectile = id
     /\ c.log[n].kind = kind
     /\ c.log[n].target = target}

\* update() is to resolve the area event of projectile i
AreaDue(c, i) ==
  /\ c.projectiles[i].isActive
  /\ hasAreaDamage(c.projectiles[i])
  /\ hasReachedTarget(c.projectiles[i])

\* one update() and the area events it resolves
AreaEventResolvedOnce ==
  cs' = CombatSystem_update(ClearLog(cs)) =>
    \A i \in 1..Len(cs.projectiles) :
      LET projectile == cs.projectiles[i]
          center == [x |-> projectile.x, y |-> projectile.y]
      IN  /\ AreaDue(cs, i) =>
                /\ \A k \in 1..Len(cs.targets) :
                     LET target == cs.targets[k]
                         damaged == EntriesFor(cs', projectile.id, "takeDamage",
                                             target.id)
                     IN  /\ Cardinality(damaged) <= 1
                         /\ (/\ isAlive(target)
                             /\ isInRadius(target, center,
                                           projectile.config.areaRadius)
                             /\ target.id \notin projectile.hitTargetIds)
                              => Cardinality(damaged) = 1
                         /\ ~isInRadius(target, center,
                                        projectile.config.areaRadius)
                              => damaged = {}
                /\ Cardinality({n \in 1..Len(cs'.log) :
                                  /\ cs'.log[n].projectile = projectile.id
                                  /\ cs'.log[n].kind = "projectile_hit"}) = 1
                /\ Cardinality(EntriesFor(cs', projectile.id,
                                          "projectile_hit", 0)) = 1
                /\ ~cs'.projectiles[i].isActive
          /\ ~projectile.isActive =>
                \A n \in 1..Len(cs'.log) :
                  cs'.log[n].projectile # projectile.id

\* C32: update() on an active area projectile that has reached its target
\* point resolves one area event: every registered target alive when
\* update() begins, within areaRadius of the impact point and not already
\* hit by the projectile receives exactly one takeDamage, no target farther
\* away receives one, exactly one projectile_hit is emitted, and the
\* projectile is inactive afterwards, so that no later update() resolves
\* anything for it.
C32_AreaEventResolvedOnce == [][AreaEventResolvedOnce]_vars

\* an area event has damaged a target in its radius and left alone the
\* target 43 away from the impact point
C32_Witness ==
  \E n, m \in 1..Len(cs.log) :
    /\ cs.log[n].kind = "projectile_hit"
    /\ cs.log[n].target = 0
    /\ cs.log[m].kind = "takeDamage"
    /\ AreaHit(cs.log[m])
    /\ cs.log[m].projectile = cs.log[n].projectile
    /\ ~ProjectileOf(cs.log[n]).isActive
    /\ \E k \in 1..Len(cs.targets) :
         /\ cs.targets[k].x = 88
         /\ isAlive(cs.targets[k])
         /\ EntriesFor(cs, cs.log[n].projectile, "takeDamage",
                       cs.targets[k].id) = {}

\* C38: for each registered target target_killed is emitted at most once and
\* onDeath is called at most once: not twice in one update(), and not in an
\* update() that the target was already dead before.
C38_KilledOnce ==
  /\ [](\A j, k \in 1..Len(cs.log) :
          (/\ cs.log[j].kind \in {"target_killed", "onDeath"}
           /\ cs.log[k].kind = cs.log[j].kind
           /\ cs.log[k].target = cs.log[j].target)
            => j = k)
  /\ [][\A n \in 1..Len(cs'.log) :
          cs'.log[n].kind \in {"target_killed", "onDeath"}
            => \E k \in 1..Len(cs.targets) :
                 /\ cs.targets[k].id = cs'.log[n].target
                 /\ isAlive(cs.targets[k])]_vars

====
